---- MODULE Spec2Model ----
(***************************************************************************)
(* Verification model of media-shrinker: the bitrate / size / quality      *)
(* estimation functions of hooks/useTranscoder.ts and                      *)
(* hooks/useTranscoderPro.ts, the resolution planner lib/resolution.ts,    *)
(* and the encode orchestration of useTranscoder.transcode /               *)
(* useTranscoderPro.transcode.                                             *)
(*                                                                         *)
(* Number representation.  The source computes in IEEE doubles; the model  *)
(* computes the same expressions in exact rational arithmetic on scaled    *)
(* integers:                                                               *)
(*   - a size in MB is an integer number of TENTHS of a MB;                *)
(*   - a duration is an integer number of seconds;                         *)
(*   - a bitrate is an integer (kbps for useTranscoder, bps for the Pro    *)
(*     hook), as the source makes it with Math.floor;                      *)
(*   - bits-per-pixel is the fraction n/q with n = 100*videoBitrate and    *)
(*     q = 3*pixels  (videoBitrate*1000 / (pixels*30)).                    *)
(* An optional number that is undefined (or 0, which the source treats the *)
(* same way through `x || default` and `if (w && h)`) is the integer 0.    *)
(***************************************************************************)
EXTENDS Integers, Sequences, FiniteSets, TLC

(***************************************************************************)
(* Arithmetic helpers (Math.min, Math.max, Math.floor, Math.ceil,          *)
(* Math.round on a fraction a/b with b > 0).                               *)
(***************************************************************************)
Min2(a, b) == IF a <= b THEN a ELSE b

Max2(a, b) == IF a >= b THEN a ELSE b

Abs(a) == IF a < 0 THEN -a ELSE a

CeilDiv(a, b) == -((-a) \div b)

\* Math.round(a/b): the nearest integer, ties towards +infinity.
RoundDiv(a, b) == (2 * a + b) \div (2 * b)

\* floor(x * k / m) for m > 0, k >= 0, computed without forming x * k.
MulDivFloor(x, k, m) == (x \div m) * k + (((x % m) * k) \div m)

RECURSIVE GCD(_, _)
GCD(a, b) == IF b = 0 THEN a ELSE GCD(b, a % b)

(***************************************************************************)
(* Bitrate Calculator: useTranscoder.calculateBitrate.                     *)
(* Sizes inside are in units of 1/64000 MB, so that 0.02 * target,         *)
(* BUFFER_MIN_MB = 0.244140625 = 15625/64000 and 0.1 MB are integers.      *)
(***************************************************************************)
SizeUnitsPerTenth == 6400

BUFFER_MIN_U == 15625

BUFFER_MAX_U == 128000

MIN_ADJUSTED_U == 6400

\* The two guards that throw ('Invalid duration', 'Invalid target size').
calculateBitrateError(targetSize, durationSeconds) ==
    IF durationSeconds <= 0 THEN "InvalidDuration"
    ELSE IF targetSize <= 0 THEN "InvalidTargetSize"
    ELSE "none"

\* A slip that leaves the safety buffer out (adjusted = max(0.1, targetSizeMB)).
adjustedTargetSizeNoBuffer(targetSize) ==
    Max2(MIN_ADJUSTED_U, SizeUnitsPerTenth * targetSize)

\* bufferMB = min(BUFFER_MAX_MB, max(BUFFER_MIN_MB, targetSizeMB * 0.02))
\* adjustedTargetSizeMB = max(0.1, targetSizeMB - bufferMB)
adjustedTargetSizeU(targetSize) ==
    LET targetU == SizeUnitsPerTenth * targetSize
        bufferU == Min2(BUFFER_MAX_U, Max2(BUFFER_MIN_U, 128 * targetSize))
    IN  Max2(MIN_ADJUSTED_U, targetU - bufferU)

\* A slip that swaps the operands of the audio subtraction
\* (audioBitrateKbps - totalBitrateKbps).
calculateBitrateSwapped(targetSize, durationSeconds, audioBitrateKbps) ==
    LET adjU == adjustedTargetSizeU(targetSize)
        x    == 125 * durationSeconds * audioBitrateKbps - 16 * adjU
    IN  MulDivFloor(x, 19, 2500 * durationSeconds)

\* targetSizeKbits = adjusted * 8192;  totalBitrateKbps = targetSizeKbits / duration
\*   (= 16 * adjU / (125 * duration) with adjU in 1/64000 MB)
\* videoBitrateKbps = totalBitrateKbps - audioBitrateKbps
\* return Math.floor(videoBitrateKbps * 0.95)
calculateBitrate(targetSize, durationSeconds, audioBitrateKbps) ==
    LET adjU == adjustedTargetSizeU(targetSize)
        x    == 16 * adjU - 125 * durationSeconds * audioBitrateKbps
    IN  MulDivFloor(x, 19, 2500 * durationSeconds)

(***************************************************************************)
(* useTranscoderPro.calculateVideoBitrate (bits per second).  It has no    *)
(* guard on its arguments; a zero duration makes the division yield        *)
(* Infinity, which Math.max and Math.floor pass through.                   *)
(*   bits = adjusted * 8192 * 1000 (= 128 * adjU); the result is           *)
(*   floor(max(100000, (bits/duration - audio) * 0.95 * 0.55)).            *)
(***************************************************************************)
MIN_PRO_BITRATE_BPS == 100000

Infinity == 2000000000

\* floor(videoBitrateBps * HARDWARE_ENCODER_OVERSHOOT_FACTOR) for a positive
\* duration: the bitrate the function computes before it applies Math.max.
hardwareVideoBitrate(targetSize, durationSeconds, audioBitrateBps) ==
    LET adjU == adjustedTargetSizeU(targetSize)
        x    == 8 * adjU - (audioBitrateBps \div 16) * durationSeconds
    IN  MulDivFloor(x, 209, 25 * durationSeconds)

calculateVideoBitrate(targetSize, durationSeconds, audioBitrateBps) ==
    IF durationSeconds = 0 THEN Infinity
    ELSE IF durationSeconds < 0 THEN MIN_PRO_BITRATE_BPS
    ELSE Max2(MIN_PRO_BITRATE_BPS,
              hardwareVideoBitrate(targetSize, durationSeconds, audioBitrateBps))

(***************************************************************************)
(* Feasibility Validator helpers.                                          *)
(***************************************************************************)
MIN_VIDEO_BITRATE_KBPS == 100

DEFAULT_AUDIO_KBPS == 128

\* ceil(((100 + 128) / 0.95 * duration / 8192) * 10) tenths of a MB.
calculateMinimumSize(durationSeconds) ==
    LET totalBitrateKbps == MIN_VIDEO_BITRATE_KBPS + DEFAULT_AUDIO_KBPS
    IN  CeilDiv(totalBitrateKbps * 20 * durationSeconds * 10, 19 * 8192)

(***************************************************************************)
(* Resolution Planner: lib/resolution.ts getTargetDimensions.              *)
(* aspectRatio = inputWidth / inputHeight, so width / aspectRatio is       *)
(* width * inputHeight / inputWidth.                                       *)
(***************************************************************************)
OutputResolutions == {"original", "1080p", "720p", "480p"}

RESOLUTION_PRESETS ==
    [p \in {"1080p", "720p", "480p"} |->
        CASE p = "1080p" -> [width |-> 1920, height |-> 1080]
          [] p = "720p"  -> [width |-> 1280, height |-> 720]
          [] p = "480p"  -> [width |-> 854,  height |-> 480]]

Undefined == [defined |-> FALSE, width |-> 0, height |-> 0]

Dimensions(w, h) == [defined |-> TRUE, width |-> w, height |-> h]

\* A slip that leaves the "don't upscale" guard out.
getTargetDimensionsUpscaling(outputResolution, inputWidth, inputHeight) ==
    IF outputResolution = "original" THEN Undefined
    ELSE
      LET preset == RESOLUTION_PRESETS[outputResolution]
          width1  == Min2(preset.width, inputWidth)
          height1 == RoundDiv(width1 * inputHeight, inputWidth)
      IN  IF height1 > preset.height
          THEN Dimensions(RoundDiv(preset.height * inputWidth, inputHeight),
                          preset.height)
          ELSE Dimensions(width1, height1)

\* A slip that fits the width only and leaves the second fit
\* (`if (height > preset.height)`) out.
getTargetDimensionsWidthOnly(outputResolution, inputWidth, inputHeight) ==
    IF outputResolution = "original" THEN Undefined
    ELSE
      LET preset == RESOLUTION_PRESETS[outputResolution]
          width1 == Min2(preset.width, inputWidth)
      IN  IF inputWidth <= preset.width /\ inputHeight <= preset.height
          THEN Undefined
          ELSE Dimensions(width1, RoundDiv(width1 * inputHeight, inputWidth))

getTargetDimensions(outputResolution, inputWidth, inputHeight) ==
    IF outputResolution = "original" THEN Undefined
    ELSE
      LET preset == RESOLUTION_PRESETS[outputResolution]
      IN  IF inputWidth <= preset.width /\ inputHeight <= preset.height
          THEN Undefined
          ELSE IF inputWidth >= inputHeight
          THEN \* Landscape
               LET width1  == Min2(preset.width, inputWidth)
                   height1 == RoundDiv(width1 * inputHeight, inputWidth)
               IN  IF height1 > preset.height
                   THEN LET height2 == Min2(preset.height, inputHeight)
                        IN  Dimensions(RoundDiv(height2 * inputWidth, inputHeight),
                                       height2)
                   ELSE Dimensions(width1, height1)
          ELSE \* Portrait
               LET height1 == Min2(preset.height, inputHeight)
                   width1  == RoundDiv(height1 * inputWidth, inputHeight)
               IN  IF width1 > preset.width
                   THEN LET width2 == Min2(preset.width, inputWidth)
                        IN  Dimensions(width2,
                                       RoundDiv(width2 * inputHeight, inputWidth))
                   ELSE Dimensions(width1, height1)

(***************************************************************************)
(* Quality -> Size Resolver: useTranscoder.calculateTargetSizeForQuality.  *)
(***************************************************************************)
DEFAULT_WIDTH == 1920

DEFAULT_HEIGHT == 1080

\* The output size the resolver assumes: inputs above 1080p are taken to be
\* scaled to 720p (above 2560x1440) or 1080p, everything else is kept.
assumedOutputSize(inputWidth, inputHeight) ==
    LET w0 == IF inputWidth # 0 THEN inputWidth ELSE DEFAULT_WIDTH
        h0 == IF inputHeight # 0 THEN inputHeight ELSE DEFAULT_HEIGHT
    IN  IF inputWidth # 0 /\ inputHeight # 0
           /\ (inputWidth > 1920 \/ inputHeight > 1080)
        THEN IF inputWidth > 2560 \/ inputHeight > 1440
             THEN [width |-> RoundDiv(720 * inputWidth, inputHeight), height |-> 720]
             ELSE [width |-> RoundDiv(1080 * inputWidth, inputHeight), height |-> 1080]
        ELSE [width |-> w0, height |-> h0]

\* bitratePerPixel recovered from the score, as the fraction p/q.
bitratePerPixelForScore(qualityScore) ==
    IF qualityScore >= 90      THEN [p |-> qualityScore - 75, q |-> 100]
    ELSE IF qualityScore >= 70 THEN [p |-> qualityScore - 30, q |-> 400]
    ELSE IF qualityScore >= 50 THEN [p |-> qualityScore - 20, q |-> 500]
    ELSE IF qualityScore >= 30 THEN [p |-> 3 * (qualityScore - 10), q |-> 2000]
    ELSE                            [p |-> qualityScore, q |-> 1000]

\* ceil(a * k / m) for a, k >= 0 and m > 0, reduced first so that the
\* products stay small.
CeilMulDiv(a, k, m) ==
    LET g1 == GCD(a, m)
        a1 == a \div g1
        m1 == m \div g1
        g2 == GCD(k, m1)
        k2 == k \div g2
        m2 == m1 \div g2
    IN  -MulDivFloor(-a1, k2, m2)

\* videoBitrateKbps  = bpp * pixels * 30 / 1000
\* totalBitrateKbps  = (videoBitrateKbps + 128) / 0.95
\* targetSizeMB      = totalBitrateKbps * duration / 8192
\* return max(0.1, ceil(targetSizeMB * 10) / 10)
\*   10 * targetSizeMB = (3*p*pixels + 12800*q) * duration / (77824 * q)
\* The ceiling is taken of the exact quotient.  Where the quotient is a whole
\* number of tenths, the source's double arithmetic can land just above it and
\* return one tenth more.
calculateTargetSizeForQuality(qualityScore, durationSeconds, inputWidth, inputHeight) ==
    LET out    == assumedOutputSize(inputWidth, inputHeight)
        pixels == out.width * out.height
        bpp    == bitratePerPixelForScore(qualityScore)
    IN  Max2(1, CeilMulDiv(3 * bpp.p * pixels + 12800 * bpp.q,
                           durationSeconds, 77824 * bpp.q))

\* [...new Set(recommendations)]: the first occurrence of each value, in order.
Unique(seq) ==
    LET first(i) == \A j \in 1..(i - 1) : seq[j] # seq[i]
        F[i \in 0..Len(seq)] ==
            IF i = 0 THEN <<>>
            ELSE IF first(i) THEN Append(F[i - 1], seq[i]) ELSE F[i - 1]
    IN  F[Len(seq)]

QUALITY_LEVELS == <<60, 75, 90, 100>>

\* A slip that sorts the checkpoint sizes without removing duplicates.
getQualityBasedRecommendationsNoDedup(durationSeconds, inputWidth, inputHeight) ==
    SortSeq([i \in 1..Len(QUALITY_LEVELS) |->
                calculateTargetSizeForQuality(QUALITY_LEVELS[i], durationSeconds,
                                              inputWidth, inputHeight)],
            LAMBDA a, b : a < b)

\* qualityLevels.map(...), then [...new Set(...)].sort((a, b) => a - b)
getQualityBasedRecommendations(durationSeconds, inputWidth, inputHeight) ==
    LET recommendations ==
            [i \in 1..Len(QUALITY_LEVELS) |->
                calculateTargetSizeForQuality(QUALITY_LEVELS[i], durationSeconds,
                                              inputWidth, inputHeight)]
    IN  SortSeq(Unique(recommendations), LAMBDA a, b : a < b)

\* A slip that recommends the minimum size instead of the 75% checkpoint.
getRecommendedTargetSizeMinimum(durationSeconds) ==
    calculateMinimumSize(durationSeconds)

\* getRecommendedTargetSize: the 75% quality checkpoint, no input size.
getRecommendedTargetSize(durationSeconds) ==
    calculateTargetSizeForQuality(75, durationSeconds, 0, 0)

(***************************************************************************)
(* Feasibility Validator: useTranscoder.validateTargetSize.                *)
(***************************************************************************)
validateTargetSize(durationSeconds, targetSize) ==
    [valid |-> calculateBitrate(targetSize, durationSeconds, DEFAULT_AUDIO_KBPS)
                  >= MIN_VIDEO_BITRATE_KBPS,
     minSizeMB |-> calculateMinimumSize(durationSeconds),
     recommendedSizeMB |-> getRecommendedTargetSize(durationSeconds)]

(***************************************************************************)
(* Quality Estimator: useTranscoder.estimateQuality.                       *)
(* bitratePerPixel = videoBitrate * 1000 / (pixels * 30) is kept as the    *)
(* reduced fraction n/q (q > 0).  Each band's score and loss is the        *)
(* source's expression with bpp = n/q, then Math.round, then the clamp to  *)
(* [0, 100].                                                               *)
(***************************************************************************)
audioBitrateFor(removeAudio, optimizeAudio) ==
    IF removeAudio THEN 0 ELSE IF optimizeAudio THEN 96 ELSE DEFAULT_AUDIO_KBPS

\* transcode's floor check: the audio bitrate of the selected mode, then
\* `if (targetBitrate < 100) throw`.
transcodeAccepts(targetSize, durationSeconds, removeAudio, optimizeAudio) ==
    calculateBitrate(targetSize, durationSeconds,
                     audioBitrateFor(removeAudio, optimizeAudio))
        >= MIN_VIDEO_BITRATE_KBPS

bitratePerPixel(videoBitrate, pixels) ==
    LET n0 == 100 * videoBitrate
        q0 == 3 * pixels
        g  == GCD(Abs(n0), q0)
    IN  [n |-> n0 \div g, q |-> q0 \div g]

Clamp100(x) == Max2(0, Min2(100, x))

\* Math.round of the band's raw score, before the clamp.
bandScore(n, q) ==
    IF 20 * n >= 3 * q THEN
        \* 90 + min(10, (bpp - 0.15) * 100); the min is 10 from bpp = 0.25 on
        IF 4 * n >= q THEN 100
        ELSE 90 + RoundDiv(100 * n - 15 * q, q)
    ELSE IF 10 * n >= q THEN
        \* 70 + ((bpp - 0.10) / 0.05) * 20
        RoundDiv(70 * q + 400 * n - 40 * q, q)
    ELSE IF 50 * n >= 3 * q THEN
        \* 50 + ((bpp - 0.06) / 0.04) * 20
        RoundDiv(50 * q + 500 * n - 30 * q, q)
    ELSE IF 100 * n >= 3 * q THEN
        \* 30 + ((bpp - 0.03) / 0.03) * 20
        RoundDiv(3 * 30 * q + 2000 * n - 60 * q, 3 * q)
    ELSE
        \* max(0, bpp / 0.03 * 30)
        IF n <= 0 THEN 0 ELSE RoundDiv(1000 * n, q)

\* A slip in one boundary: 'fair' from 0.05 instead of 0.06 bits per pixel.
bandLevelShifted(n, q) ==
    IF 20 * n >= 3 * q THEN "excellent"
    ELSE IF 10 * n >= q THEN "good"
    ELSE IF 20 * n >= q THEN "fair"
    ELSE IF 100 * n >= 3 * q THEN "poor"
    ELSE "very-poor"

bandLevel(n, q) ==
    IF 20 * n >= 3 * q THEN "excellent"
    ELSE IF 10 * n >= q THEN "good"
    ELSE IF 50 * n >= 3 * q THEN "fair"
    ELSE IF 100 * n >= 3 * q THEN "poor"
    ELSE "very-poor"

\* Math.round of the band's raw estimatedQualityLoss, before the clamp.
bandLoss(n, q) ==
    IF 20 * n >= 3 * q THEN
        \* max(0, 5 - (bpp - 0.15) * 20); it is 0 from bpp = 0.40 on
        IF 5 * n >= 2 * q THEN 0
        ELSE RoundDiv(5 * q - 20 * n + 3 * q, q)
    ELSE IF 10 * n >= q THEN
        \* 10 + ((0.15 - bpp) / 0.05) * 10
        RoundDiv(10 * q + 30 * q - 200 * n, q)
    ELSE IF 50 * n >= 3 * q THEN
        \* 25 + ((0.10 - bpp) / 0.04) * 15
        RoundDiv(2 * 25 * q + 75 * q - 750 * n, 2 * q)
    ELSE IF 100 * n >= 3 * q THEN
        \* 45 + ((0.06 - bpp) / 0.03) * 20
        RoundDiv(3 * 45 * q + 120 * q - 2000 * n, 3 * q)
    ELSE
        \* 70 + ((0.03 - bpp) / 0.03) * 25; above 100 once bpp < -0.006
        IF 500 * n < -(3 * q) THEN 100
        ELSE RoundDiv(3 * 70 * q + 75 * q - 2500 * n, 3 * q)

estimateQuality(targetSize, durationSeconds, inputWidth, inputHeight, removeAudio, optimizeAudio, outputResolution) ==
    LET audioBitrateKbps == audioBitrateFor(removeAudio, optimizeAudio)
        videoBitrate == calculateBitrate(targetSize, durationSeconds, audioBitrateKbps)
        dimensions == getTargetDimensions(outputResolution, inputWidth, inputHeight)
        outputWidth  == IF inputWidth # 0 /\ inputHeight # 0
                        THEN (IF dimensions.defined THEN dimensions.width ELSE inputWidth)
                        ELSE DEFAULT_WIDTH
        outputHeight == IF inputWidth # 0 /\ inputHeight # 0
                        THEN (IF dimensions.defined THEN dimensions.height ELSE inputHeight)
                        ELSE DEFAULT_HEIGHT
        bpp == bitratePerPixel(videoBitrate, outputWidth * outputHeight)
    IN  [score |-> Clamp100(bandScore(bpp.n, bpp.q)),
         level |-> bandLevel(bpp.n, bpp.q),
         estimatedQualityLoss |-> Clamp100(bandLoss(bpp.n, bpp.q)),
         videoBitrate |-> videoBitrate]

(***************************************************************************)
(* State.                                                                  *)
(*   calcIn, calcOut : the arguments drawn for one call of an estimation   *)
(*                     function and the value the call returned.           *)
(*   hook    : the React state and refs of one useTranscoder instance.      *)
(*   job     : the locals of the transcode call in flight (its position pc  *)
(*             and the closure variables of lines 897-1009).               *)
(*   engine  : the FFmpeg.wasm engine as transcode sees it: whether an exec *)
(*             is running, how far it got, what it logged, what it wrote.  *)
(*   memfs   : the names of the files in the engine's working storage.     *)
(*   now     : Date.now(), in milliseconds since the model's start.        *)
(*   pro     : the React state and refs of one useTranscoderPro instance    *)
(*             (which owns the useTranscoder instance held in hook).       *)
(*   calls   : the useTranscoderPro.transcode calls: for each its position, *)
(*             its arguments and the values its closure captured.          *)
(*   app     : the state of the application component (App or AppPro) that  *)
(*             holds the output blob URL, and the blob URLs created and     *)
(*             revoked so far.                                              *)
(*   ui      : the state of the application component that holds the        *)
(*             selected file, what its probe found, and the settings.       *)
(***************************************************************************)
VARIABLES calcIn, calcOut, hook, job, engine, memfs, now, pro, calls, app, ui

calcVars == <<calcIn, calcOut>>

jobVars == <<hook, job, engine, memfs, now>>

proVars == <<pro, calls>>

appVars == <<app, ui>>

vars == <<calcIn, calcOut, hook, job, engine, memfs, now, pro, calls, app, ui>>

(***************************************************************************)
(* Bounds of the estimation inputs.                                        *)
(***************************************************************************)
SizeStep == 7

MaxSizeSteps == 180

MaxDuration == 30

MaxFormulaSize == 99

DimStep == 107

MaxDimSteps == 40

Sizes == {k * SizeStep : k \in 1..MaxSizeSteps}

Durations == (1..MaxDuration) \cup {60, 90, 120, 300, 600}

AudioKbps == {0, 96, 128}

InputSizes == {<<0, 0>>, <<320, 240>>, <<640, 480>>, <<1280, 720>>, <<1920, 1080>>,
               <<2560, 1440>>, <<3840, 2160>>, <<1080, 1920>>}

RoundTripScores == {30, 50, 70, 90}

NoResult == [op |-> "none"]

\* The sizes at which both bitrate functions are compared with the closed
\* formula: every tenth of a MB up to MaxFormulaSize (8 MB among them).
FormulaSizes == 1..MaxFormulaSize

\* Target sizes given to the quality estimate, from 0.1 MB (where the video
\* bitrate is negative) to MaxSizeSteps * SizeStep tenths of a MB.
EstimateSizes ==
    {1, 2, 3, 5, 8, 10, 20, 30, 50, 80, 100, 250, 500, 1000, MaxSizeSteps * SizeStep}

\* Widths and heights given to the resolution planner: a grid of step
\* DimStep, the edges of the preset boxes and the common frame sizes.
DimSizes ==
    {k * DimStep : k \in 1..MaxDimSteps}
    \cup {1, 480, 481, 640, 720, 721, 854, 855, 1080, 1081, 1200, 1280, 1281,
          1500, 1920, 1921, 2160, 2560, 3840}

FormulaDurations == (1..MaxDuration) \cup {60, 90, 120, 300}

CalcInputs ==
    [op : {"validateMinimum"}, d : Durations]
    \cup [op : {"roundTrip"}, score : RoundTripScores, d : Durations, size : InputSizes]
    \cup [op : {"bitrate"}, t : Sizes, d : Durations, a : AudioKbps]
    \cup [op : {"formula"}, t : FormulaSizes, d : FormulaDurations, a : AudioKbps]
    \cup [op : {"dimensions"}, cap : OutputResolutions, w : DimSizes, h : DimSizes]
    \cup [op : {"recommend"}, d : Durations, size : InputSizes]
    \cup [op : {"estimate"}, t : EstimateSizes, d : Durations, size : InputSizes,
             removeAudio : BOOLEAN, optimizeAudio : BOOLEAN, cap : OutputResolutions]
    \cup [op : {"feasibility"}, t : Sizes, d : Durations,
             removeAudio : BOOLEAN, optimizeAudio : BOOLEAN]
    \cup [op : {"validateRecommended"}, t : EstimateSizes, d : Durations]

CalcInit == calcIn \in CalcInputs /\ calcOut = NoResult

CalcIdle == calcIn = NoResult /\ calcOut = NoResult

\* validateTargetSize(d, calculateMinimumSize(d))
ApplyValidateMinimum ==
    /\ calcIn.op = "validateMinimum" /\ calcOut = NoResult
    /\ LET minSize == calculateMinimumSize(calcIn.d)
       IN  calcOut' = [op |-> "validateMinimum", minSizeMB |-> minSize,
                       validation |-> validateTargetSize(calcIn.d, minSize)]
    /\ UNCHANGED <<calcIn, jobVars, proVars, appVars>>

\* estimateQuality(calculateTargetSizeForQuality(score, d, w, h), d, w, h,
\*                 removeAudio = false, optimizeAudio = false, 'original')
ApplyRoundTrip ==
    /\ calcIn.op = "roundTrip" /\ calcOut = NoResult
    /\ LET w == calcIn.size[1]
           h == calcIn.size[2]
           targetSize == calculateTargetSizeForQuality(calcIn.score, calcIn.d, w, h)
       IN  calcOut' = [op |-> "roundTrip", targetSizeMB |-> targetSize,
                       quality |-> estimateQuality(targetSize, calcIn.d, w, h,
                                                   FALSE, FALSE, "original")]
    /\ UNCHANGED <<calcIn, jobVars, proVars, appVars>>

\* Both engines' bitrate functions at (t, d, a), at the next larger size and at
\* the next longer duration of the grid.
ApplyBitrate ==
    /\ calcIn.op = "bitrate" /\ calcOut = NoResult
    /\ LET t == calcIn.t
           d == calcIn.d
           a == calcIn.a
       IN  calcOut' =
             [op |-> "bitrate",
              kbps       |-> calculateBitrate(t, d, a),
              kbpsLarger |-> calculateBitrate(t + SizeStep, d, a),
              kbpsLonger |-> calculateBitrate(t, d + 1, a),
              bps        |-> calculateVideoBitrate(t, d, 1000 * a),
              bpsLarger  |-> calculateVideoBitrate(t + SizeStep, d, 1000 * a),
              bpsLonger  |-> calculateVideoBitrate(t, d + 1, 1000 * a)]
    /\ UNCHANGED <<calcIn, jobVars, proVars, appVars>>

\* Both engines' bitrate functions at (t, d, a).
ApplyFormula ==
    /\ calcIn.op = "formula" /\ calcOut = NoResult
    /\ calcOut' = [op |-> "formula",
                   kbps |-> calculateBitrate(calcIn.t, calcIn.d, calcIn.a),
                   bps  |-> calculateVideoBitrate(calcIn.t, calcIn.d, 1000 * calcIn.a)]
    /\ UNCHANGED <<calcIn, jobVars, proVars, appVars>>

\* getTargetDimensions(cap, w, h)
ApplyDimensions ==
    /\ calcIn.op = "dimensions" /\ calcOut = NoResult
    /\ calcOut' = [op |-> "dimensions",
                   dims |-> getTargetDimensions(calcIn.cap, calcIn.w, calcIn.h)]
    /\ UNCHANGED <<calcIn, jobVars, proVars, appVars>>

\* getQualityBasedRecommendations(d, w, h)
ApplyRecommend ==
    /\ calcIn.op = "recommend" /\ calcOut = NoResult
    /\ calcOut' = [op |-> "recommend",
                   list |-> getQualityBasedRecommendations(calcIn.d, calcIn.size[1],
                                                           calcIn.size[2])]
    /\ UNCHANGED <<calcIn, jobVars, proVars, appVars>>

\* estimateQuality(t, d, w, h, removeAudio, optimizeAudio, cap)
ApplyEstimate ==
    /\ calcIn.op = "estimate" /\ calcOut = NoResult
    /\ calcOut' = [op |-> "estimate",
                   quality |-> estimateQuality(calcIn.t, calcIn.d, calcIn.size[1],
                                               calcIn.size[2], calcIn.removeAudio,
                                               calcIn.optimizeAudio, calcIn.cap)]
    /\ UNCHANGED <<calcIn, jobVars, proVars, appVars>>

\* The verdict of validateTargetSize(d, t) and the verdict of transcode's own
\* floor check for the same request with the selected audio mode.
ApplyFeasibility ==
    /\ calcIn.op = "feasibility" /\ calcOut = NoResult
    /\ calcOut' = [op |-> "feasibility",
                   validation |-> validateTargetSize(calcIn.d, calcIn.t),
                   accepted |-> transcodeAccepts(calcIn.t, calcIn.d, calcIn.removeAudio,
                                                 calcIn.optimizeAudio)]
    /\ UNCHANGED <<calcIn, jobVars, proVars, appVars>>

\* validateTargetSize(d, validateTargetSize(d, t).recommendedSizeMB)
ApplyValidateRecommended ==
    /\ calcIn.op = "validateRecommended" /\ calcOut = NoResult
    /\ LET validation == validateTargetSize(calcIn.d, calcIn.t)
       IN  calcOut' = [op |-> "validateRecommended", validation |-> validation,
                       revalidation |-> validateTargetSize(calcIn.d,
                                                           validation.recommendedSizeMB)]
    /\ UNCHANGED <<calcIn, jobVars, proVars, appVars>>

CalcNext ==
    \/ ApplyValidateMinimum
    \/ ApplyRoundTrip
    \/ ApplyBitrate
    \/ ApplyFormula
    \/ ApplyDimensions
    \/ ApplyRecommend
    \/ ApplyEstimate
    \/ ApplyFeasibility
    \/ ApplyValidateRecommended


(***************************************************************************)
(* useTranscoder.transcode: the encode orchestrator of the FFmpeg.wasm     *)
(* engine.  Progress is held in percent (0..100), times in milliseconds.   *)
(* A message (a log line of the engine, or the text of an Error) is a      *)
(* record whose field words is the set of the substrings, among those the  *)
(* code tests with includes(), that the lower-cased text contains; a log   *)
(* line also carries the numbers its frame= and time= fields hold (-1 when *)
(* the field is absent).  Locals that reach only the console               *)
(* (lastProgressValue, lastProgressLog, lastWarningTime) or only the       *)
(* detail text of the generic error (encodingErrors) are left out.         *)
(***************************************************************************)
STALL_THRESHOLD == 180000

CHECK_INTERVAL == 30000

ASSUMED_FPS == 60

NEAR_COMPLETE == 95

MaxTicks == 8

MaxJobs == 2

EngineSteps == 2

ProbeDurations == {10}

FrameRates == {30, 60}

JobSizes == {0, 3, 80}

INPUT_FILE == "input.mp4"

OUTPUT_FILE == "output.mp4"

\* new Error(`FFmpeg encoding stalled: ... Out of memory (OOM) - browser ran out of RAM ...`)
StallError == [kind |-> "Stalled", words |-> {"oom", "out of memory"}]

\* new Error(`Out of Memory Error: Browser-based processing cannot handle this video...`)
DetectedOomError == [kind |-> "DetectedOom", words |-> {"out of memory"}]

\* What ffmpeg.exec can reject with: the runtime's "Aborted()", its
\* "Aborted(OOM)", a WebAssembly "function signature mismatch", any other text.
ExecRejections ==
    { [kind |-> "Aborted", words |-> {"aborted"}],
      [kind |-> "AbortedOom", words |-> {"aborted", "oom"}],
      [kind |-> "SignatureMismatch", words |-> {"signature mismatch"}],
      [kind |-> "Other", words |-> {}] }

\* "frame= N fps=.. q=.. size=.. time=hh:mm:ss.cc bitrate=.."
ProgressLine(frame, timeCs) ==
    [kind |-> "progress", words |-> {}, frame |-> frame, timeCs |-> timeCs]

\* "video:15296kB audio:1424kB subtitle:0kB other streams:0kB ..."
StatsLine == [kind |-> "stats", words |-> {"video:", "audio:", "kB"}, frame |-> -1, timeCs |-> -1]

\* "Aborted()"
AbortLine == [kind |-> "abort", words |-> {"aborted"}, frame |-> -1, timeCs |-> -1]

\* "Aborted(OOM)"
OomLine == [kind |-> "oom", words |-> {"aborted(oom)", "aborted"}, frame |-> -1, timeCs |-> -1]

IdleJob ==
    [pc |-> "idle", n |-> 0, targetSizeMB |-> 0, audioBitrateKbps |-> 0,
     duration |-> 0, targetBitrate |-> 0,
     oomDetected |-> FALSE, abortedDetected |-> FALSE, frameCount |-> 0,
     totalFramesEstimate |-> 0, encodingCompleted |-> FALSE,
     lastProgressUpdate |-> 0, handlerOn |-> FALSE, encodingTimedOut |-> FALSE,
     timeoutInterval |-> FALSE, stallReject |-> FALSE,
     cProgress |-> 0, result |-> "none"]

IdleEngine ==
    [state |-> "idle", pos |-> 0, fps |-> 0, output |-> "absent", log |-> <<>>,
     lastProgressAt |-> 0]

IdleHook ==
    [ffmpegRef |-> FALSE, isLoaded |-> FALSE, isTranscoding |-> FALSE,
     progress |-> 0, error |-> "none", cbProgress |-> 0]

JobInit ==
    /\ hook = IdleHook
    /\ job = IdleJob
    /\ engine = IdleEngine
    /\ memfs = {}
    /\ now = 0

\* The outer catch (setError, return null) and finally (setIsTranscoding(false)).
Failed(j, h, e) ==
    /\ job' = [j EXCEPT !.pc = "settled", !.result = "null"]
    /\ hook' = [h EXCEPT !.error = e, !.isTranscoding = FALSE]

\* catch (execError): clear the interval, detach the log handler, classify the
\* text of the error and rethrow to the outer catch.
ExecCatch(j, h, err) ==
    LET j1 == [j EXCEPT !.timeoutInterval = FALSE, !.handlerOn = FALSE]
        w  == err.words
    IN  IF "signature mismatch" \in w \/ "indirect call" \in w
        THEN Failed(j1, h, "WebAssemblyError")
        ELSE IF "oom" \in w \/ "out of memory" \in w \/ "aborted" \in w
        THEN Failed(j1, h, "OutOfMemory")
        ELSE Failed(j1, h, "EncodingFailed: " \o err.kind)

\* The statements after `await execWithStallDetection` resolves.
ExecResolved(j, h) ==
    LET j1 == [j EXCEPT !.timeoutInterval = FALSE, !.handlerOn = FALSE]
        encodingLikelyCompleted ==
            \/ j.encodingCompleted
            \/ j.cProgress >= NEAR_COMPLETE
            \/ (j.frameCount > 0 /\ 10 * j.frameCount >= 9 * j.totalFramesEstimate)
        h1 == IF encodingLikelyCompleted THEN [h EXCEPT !.progress = 100] ELSE h
    IN  IF (j.oomDetected \/ j.abortedDetected) /\ ~encodingLikelyCompleted
        THEN ExecCatch(j1, h1, DetectedOomError)
        ELSE /\ job' = [j1 EXCEPT !.pc = "reading"]
             /\ hook' = h1

\* errorHandler({ message }): the closure variables after one log line.
errorHandler(j, msg, t) ==
    LET w == msg.words
        completed == j.encodingCompleted \/ {"video:", "audio:", "kB"} \subseteq w
        isOom == "aborted(oom)" \in w \/ "out of memory" \in w
        isAbort == ~isOom /\ "aborted" \in w /\ ~completed
        newFrame == msg.frame >= 0 /\ msg.frame > j.frameCount
        total == IF newFrame /\ j.duration # 0 /\ j.totalFramesEstimate = 0
                 THEN j.duration * ASSUMED_FPS
                 ELSE j.totalFramesEstimate
        timed == msg.timeCs > 0 /\ j.duration > 0
    IN  [j EXCEPT !.encodingCompleted = completed,
                  !.oomDetected = j.oomDetected \/ isOom,
                  !.abortedDetected = j.abortedDetected \/ isAbort,
                  !.frameCount = IF newFrame THEN msg.frame ELSE j.frameCount,
                  !.totalFramesEstimate = total,
                  !.lastProgressUpdate = IF newFrame \/ timed THEN t
                                         ELSE j.lastProgressUpdate]

\* The setProgress calls of errorHandler, in the order the handler makes them.
errorHandlerProgress(p, j, msg) ==
    LET j1 == errorHandler(j, msg, 0)
        p1 == IF {"video:", "audio:", "kB"} \subseteq msg.words THEN 100 ELSE p
        p2 == IF msg.frame >= 0 /\ msg.frame > j.frameCount /\ j1.totalFramesEstimate > 0
              THEN Min2(99, (100 * j1.frameCount) \div j1.totalFramesEstimate)
              ELSE p1
    IN  IF msg.timeCs > 0 /\ j.duration > 0
        THEN Min2(99, msg.timeCs \div j.duration)
        ELSE p2

\* useTranscoder.load() of a render whose isLoaded is cIsLoaded, with the
\* outcome of fetching and starting the core: "loaded", or "failed" before or
\* after the FFmpeg instance was created.  The transcode callback is rebuilt
\* when isLoaded changes and captures the progress of that render.
load(h, cIsLoaded, outcome) ==
    IF cIsLoaded /\ h.ffmpegRef THEN h
    ELSE IF outcome = "loaded"
    THEN [h EXCEPT !.ffmpegRef = TRUE, !.isLoaded = TRUE, !.error = "none",
                   !.progress = 0, !.cbProgress = 0]
    ELSE [h EXCEPT !.ffmpegRef = h.ffmpegRef \/ outcome = "failedAfterCreate",
                   !.error = "LoadFailed"]

LoadOutcomes == {"loaded", "failedBeforeCreate", "failedAfterCreate"}

\* The application calls load() and the core files arrive.
LoadSucceeds ==
    /\ ~(hook.isLoaded /\ hook.ffmpegRef)
    /\ hook' = load(hook, hook.isLoaded, "loaded")
    /\ UNCHANGED <<job, engine, memfs, now, calcVars, proVars, appVars>>

\* The application calls load() and it throws: SharedArrayBuffer is missing,
\* or a core file cannot be fetched.
LoadFails ==
    /\ ~(hook.isLoaded /\ hook.ffmpegRef)
    /\ \E outcome \in LoadOutcomes \ {"loaded"} :
         hook' = load(hook, hook.isLoaded, outcome)
    /\ UNCHANGED <<job, engine, memfs, now, calcVars, proVars, appVars>>

\* transcode(file, targetSizeMB, removeAudio, optimizeAudio, ...) up to its
\* first await, run by a callback that captured isLoaded = cIsLoaded and
\* progress = cProgress: the new job record and the new hook state.
transcodeJob(j, h, t, audioKbps, cIsLoaded, cProgress) ==
    LET j0 == [IdleJob EXCEPT !.n = j.n + 1, !.targetSizeMB = t,
                              !.audioBitrateKbps = audioKbps, !.cProgress = cProgress]
    IN  IF ~h.ffmpegRef \/ ~cIsLoaded
        THEN [j0 EXCEPT !.pc = "settled", !.result = "null"]
        ELSE [j0 EXCEPT !.pc = "probing"]

transcodeHook(h, cIsLoaded) ==
    IF ~h.ffmpegRef THEN [h EXCEPT !.error = "FFmpegNotLoaded"]
    ELSE IF ~cIsLoaded THEN [h EXCEPT !.error = "FFmpegNotLoadedYet"]
    ELSE [h EXCEPT !.isTranscoding = TRUE, !.error = "none", !.progress = 0]

\* The application calls transcode of the current render.
TranscodeCall ==
    /\ job.pc \in {"idle", "settled"}
    /\ job.n < MaxJobs
    /\ engine.state # "running"
    /\ \E t \in JobSizes, removeAudio \in BOOLEAN, optimizeAudio \in BOOLEAN :
         job' = transcodeJob(job, hook, t, audioBitrateFor(removeAudio, optimizeAudio),
                             hook.isLoaded, hook.cbProgress)
    /\ hook' = transcodeHook(hook, hook.isLoaded)
    /\ UNCHANGED <<engine, memfs, now, calcVars, proVars, appVars>>

\* getVideoDuration resolves; the bitrate is computed and checked.
DurationKnown ==
    /\ job.pc = "probing"
    /\ \E d \in ProbeDurations :
         LET t == job.targetSizeMB
             a == job.audioBitrateKbps
             err == calculateBitrateError(t, d)
         IN  IF err # "none"
             THEN Failed(job, hook, err)
             ELSE IF calculateBitrate(t, d, a) < MIN_VIDEO_BITRATE_KBPS
             THEN Failed(job, hook, "TargetTooSmall")
             ELSE /\ job' = [job EXCEPT !.pc = "fetching", !.duration = d,
                                        !.targetBitrate = calculateBitrate(t, d, a)]
                  /\ UNCHANGED hook
    /\ UNCHANGED <<engine, memfs, now, calcVars, proVars, appVars>>

\* getVideoDuration rejects.
DurationUnknown ==
    /\ job.pc = "probing"
    /\ Failed(job, hook, "DurationUnknown")
    /\ UNCHANGED <<engine, memfs, now, calcVars, proVars, appVars>>

\* await fetchFile(file)
FileFetched ==
    /\ job.pc = "fetching"
    /\ job' = [job EXCEPT !.pc = "writing"]
    /\ UNCHANGED <<hook, engine, memfs, now, calcVars, proVars, appVars>>

\* await ffmpeg.writeFile(inputFileName, inputData)
InputWritten ==
    /\ job.pc = "writing"
    /\ memfs' = memfs \cup {INPUT_FILE}
    /\ job' = [job EXCEPT !.pc = "verifying"]
    /\ UNCHANGED <<hook, engine, now, calcVars, proVars, appVars>>

\* ffmpeg.writeFile rejects (the file does not fit the engine's heap).
InputWriteFails ==
    /\ job.pc = "writing"
    /\ Failed(job, hook, "WriteFailed")
    /\ UNCHANGED <<engine, memfs, now, calcVars, proVars, appVars>>

\* The read-back of the input returns or throws (both are only logged); the
\* closure variables are initialised, errorHandler is attached and the stall
\* interval is installed; the function then awaits import('../lib/resolution').
InputVerified ==
    /\ job.pc = "verifying"
    /\ job' = [job EXCEPT !.pc = "importing", !.lastProgressUpdate = now,
                          !.handlerOn = TRUE, !.timeoutInterval = TRUE]
    /\ UNCHANGED <<hook, engine, memfs, now, calcVars, proVars, appVars>>

\* The import resolves: ffmpeg.exec(ffmpegArgs) is issued and wrapped in
\* execWithStallDetection, whose reject function is stored in stallReject.  The
\* engine opens the output file (or fails to) and starts encoding a source of
\* some frame rate.
ExecStarted ==
    /\ job.pc = "importing"
    /\ \E fps \in FrameRates, out \in {"absent", "empty", "small", "full"} :
         /\ engine' = [state |-> "running", pos |-> 0, fps |-> fps,
                       output |-> out, log |-> <<>>,
                       lastProgressAt |-> engine.lastProgressAt]
         /\ memfs' = IF out = "absent" THEN memfs ELSE memfs \cup {OUTPUT_FILE}
    /\ job' = [job EXCEPT !.pc = "executing", !.stallReject = TRUE]
    /\ UNCHANGED <<hook, now, calcVars, proVars, appVars>>

\* The callback of setInterval(..., 30000): thirty seconds pass and the stall
\* test runs.  A rejection through stallReject is followed at once by the
\* catch (execError) block.
StallCheck ==
    /\ job.timeoutInterval
    /\ now < MaxTicks * CHECK_INTERVAL
    /\ now' = now + CHECK_INTERVAL
    /\ LET progressStalled == now' - job.lastProgressUpdate > STALL_THRESHOLD
       IN  IF progressStalled /\ ~job.encodingCompleted /\ ~job.encodingTimedOut
           THEN IF job.stallReject
                THEN ExecCatch([job EXCEPT !.encodingTimedOut = TRUE], hook, StallError)
                ELSE /\ job' = [job EXCEPT !.encodingTimedOut = TRUE]
                     /\ UNCHANGED hook
           ELSE UNCHANGED <<job, hook>>
    /\ UNCHANGED <<engine, memfs, calcVars, proVars, appVars>>

\* The engine emits a log line; errorHandler runs if it is attached.
LogLine(msg) ==
    /\ IF job.handlerOn
       THEN /\ job' = errorHandler(job, msg, now)
            /\ hook' = [hook EXCEPT !.progress = errorHandlerProgress(hook.progress, job, msg)]
       ELSE UNCHANGED <<job, hook>>
    /\ UNCHANGED <<memfs, now, calcVars, proVars, appVars>>

NoAbortLogged == \A i \in 1..Len(engine.log) : engine.log[i] = "stats"

\* The encoder advances and reports "frame= .. time= .."; at the end of the
\* input it prints its last report for the position it has reached, whether
\* or not the progress callback has reported that position already.
EngineProgressLine ==
    /\ engine.state = "running"
    /\ engine.log = <<>>
    /\ LET pos == Min2(EngineSteps, engine.pos + 1)
       IN  /\ engine' = [engine EXCEPT !.pos = pos, !.lastProgressAt = now]
           /\ LogLine(ProgressLine((pos * engine.fps * job.duration) \div EngineSteps,
                                   (pos * 100 * job.duration) \div EngineSteps))

\* The encoder has written the last frame and prints its final statistics.
EngineStatsLine ==
    /\ engine.state = "running"
    /\ engine.pos = EngineSteps
    /\ engine.log = <<>>
    /\ engine' = [engine EXCEPT !.log = Append(engine.log, "stats")]
    /\ LogLine(StatsLine)

\* The engine's runtime aborts and prints "Aborted()" or "Aborted(OOM)".
EngineAbortLine ==
    /\ engine.state = "running"
    /\ NoAbortLogged
    /\ \E msg \in {AbortLine, OomLine} :
         /\ engine' = [engine EXCEPT !.log = Append(engine.log, msg.kind)]
         /\ LogLine(msg)

\* ffmpeg.on('progress', ...) of load(): setProgress(clamp(prog)). The engine
\* reports its position through the callback, with or without having moved on
\* since its last report; the handler touches nothing but the progress state.
EngineProgressEvent ==
    /\ engine.state = "running"
    /\ \E pos \in {engine.pos, Min2(EngineSteps, engine.pos + 1)} :
         /\ pos # engine.pos => engine.log = <<>>
         /\ engine' = [engine EXCEPT !.pos = pos, !.lastProgressAt = now]
         /\ hook' = [hook EXCEPT !.progress =
                        Max2(0, Min2(100, (100 * pos) \div EngineSteps))]
    /\ UNCHANGED <<job, memfs, now, calcVars, proVars, appVars>>

\* ffmpeg.exec resolves.  execWithStallDetection resolves with it unless the
\* stall interval has fired; a call whose wrapper was already rejected has moved on.
ExecResolves ==
    /\ engine.state = "running"
    /\ engine' = [engine EXCEPT !.state = "ended"]
    /\ IF job.pc = "executing" /\ ~job.encodingTimedOut
       THEN ExecResolved(job, hook)
       ELSE UNCHANGED <<job, hook>>
    /\ UNCHANGED <<memfs, now, calcVars, proVars, appVars>>

\* ffmpeg.exec rejects; the wrapper passes the rejection on.
ExecRejects ==
    /\ engine.state = "running"
    /\ engine' = [engine EXCEPT !.state = "ended"]
    /\ \E err \in ExecRejections :
         IF job.pc = "executing"
         THEN ExecCatch(job, hook, err)
         ELSE UNCHANGED <<job, hook>>
    /\ UNCHANGED <<memfs, now, calcVars, proVars, appVars>>

\* await ffmpeg.readFile(outputFileName) and the checks of the data read.
OutputRead ==
    /\ job.pc = "reading"
    /\ LET nearComplete == job.cProgress >= NEAR_COMPLETE
       IN  CASE engine.output = "absent" ->
                  Failed(job, hook, IF nearComplete THEN "CompletedButUnreadable"
                                    ELSE "ReadFailed")
             [] engine.output = "empty" -> Failed(job, hook, "OutputEmpty")
             [] engine.output = "small" ->
                  Failed(job, hook, IF nearComplete THEN "CompletedButTooSmall"
                                    ELSE "OutputTooSmall")
             [] OTHER -> /\ job' = [job EXCEPT !.pc = "deletingInput"]
                         /\ UNCHANGED hook
    /\ UNCHANGED <<engine, memfs, now, calcVars, proVars, appVars>>

\* await ffmpeg.deleteFile(inputFileName)
InputDeleted ==
    /\ job.pc = "deletingInput"
    /\ memfs' = memfs \ {INPUT_FILE}
    /\ job' = [job EXCEPT !.pc = "deletingOutput"]
    /\ UNCHANGED <<hook, engine, now, calcVars, proVars, appVars>>

\* await ffmpeg.deleteFile(outputFileName); the blob URL is made and returned.
OutputDeleted ==
    /\ job.pc = "deletingOutput"
    /\ memfs' = memfs \ {OUTPUT_FILE}
    /\ job' = [job EXCEPT !.pc = "settled", !.result = "url"]
    /\ hook' = [hook EXCEPT !.progress = 100, !.isTranscoding = FALSE]
    /\ UNCHANGED <<engine, now, calcVars, proVars, appVars>>

JobNext ==
    \/ LoadSucceeds
    \/ LoadFails
    \/ TranscodeCall
    \/ DurationKnown
    \/ DurationUnknown
    \/ FileFetched
    \/ InputWritten
    \/ InputWriteFails
    \/ InputVerified
    \/ ExecStarted
    \/ StallCheck
    \/ EngineProgressLine
    \/ EngineStatsLine
    \/ EngineAbortLine
    \/ EngineProgressEvent
    \/ ExecResolves
    \/ ExecRejects
    \/ OutputRead
    \/ InputDeleted
    \/ OutputDeleted

(***************************************************************************)
(* useTranscoderPro: WebCodecs (MediaBunny) first, FFmpeg.wasm as the      *)
(* fallback.  Every render rebuilds the hook's callbacks, so a transcode   *)
(* call runs with the engine, the useTranscoder error and the useTranscoder *)
(* callbacks of the render it was taken from; the call record keeps them   *)
(* (cEngine, cWasmError, cWasmIsLoaded, cWasmProgress).  A call that hands  *)
(* over to useTranscoder.transcode is followed up to that function's first *)
(* await ("delegated"; the course of the job from there is the subject of  *)
(* SpecJob); a call that starts a second FFmpeg.wasm job while one is in   *)
(* flight is recorded as "overlapped".                                     *)
(***************************************************************************)
MaxCalls == 2

ProSizes == {0, 3, 6, 80}

ProDurations == {10}

ProgressReports == {50, 100}

Calls == 1..MaxCalls

IdleCall ==
    [pc |-> "idle", targetSizeMB |-> 0, audioKbps |-> 0, cEngine |-> "loading",
     cWasmError |-> "none", cWasmIsLoaded |-> FALSE, cWasmProgress |-> 0,
     duration |-> 0, videoBitrateBps |-> 0, inTry |-> FALSE,
     fallbackReason |-> "none", result |-> "none"]

IdlePro ==
    [engine |-> "loading", progress |-> 0, error |-> "none",
     webcodecsUnavailableReason |-> "none", isTranscodingPro |-> FALSE,
     webCodecsAttempted |-> FALSE, videoEncoder |-> TRUE]

ProIdle == pro = IdlePro /\ calls = [c \in Calls |-> IdleCall]

\* The browser has VideoEncoder or has not (isWebCodecsAvailable).
ProInit ==
    /\ pro \in {[IdlePro EXCEPT !.videoEncoder = b] : b \in BOOLEAN}
    /\ calls = [c \in Calls |-> IdleCall]

\* A slip that sends a request the FFmpeg.wasm hook turned away back to the
\* WebCodecs attempt instead of ending the call.
DelegateRetrying(c, cl, h, p, inTry) ==
    /\ hook' = transcodeHook(h, cl.cWasmIsLoaded)
    /\ IF ~h.ffmpegRef \/ ~cl.cWasmIsLoaded
       THEN /\ calls' = [calls EXCEPT ![c] = [cl EXCEPT !.pc = "wcProbing"]]
            /\ pro' = p
            /\ UNCHANGED job
       ELSE /\ calls' = [calls EXCEPT ![c] = [cl EXCEPT !.pc = "delegated"]]
            /\ pro' = p
            /\ UNCHANGED job

\* wasmTranscoder.transcode(...) of the captured render, called by the call
\* whose record is cl, with the useTranscoder state h and the Pro state p;
\* inTry tells whether the call is made inside try/finally (the fallback) or
\* before it (engine === 'wasm').
Delegate(c, cl, h, p, inTry) ==
    /\ hook' = transcodeHook(h, cl.cWasmIsLoaded)
    /\ IF ~h.ffmpegRef \/ ~cl.cWasmIsLoaded
       THEN /\ calls' = [calls EXCEPT ![c] = [cl EXCEPT !.pc = "settled",
                                                       !.result = "null"]]
            /\ pro' = IF inTry THEN [p EXCEPT !.isTranscodingPro = FALSE] ELSE p
            /\ UNCHANGED job
       ELSE IF job.pc \in {"idle", "settled"} /\ engine.state # "running"
       THEN /\ calls' = [calls EXCEPT ![c] = [cl EXCEPT !.pc = "delegated"]]
            /\ pro' = p
            /\ job' = transcodeJob(job, h, cl.targetSizeMB, cl.audioKbps,
                                   cl.cWasmIsLoaded, cl.cWasmProgress)
       ELSE /\ calls' = [calls EXCEPT ![c] = [cl EXCEPT !.pc = "overlapped"]]
            /\ pro' = p
            /\ UNCHANGED job

\* transcode after `await load()` has returned, h being the useTranscoder
\* state that load left.
AfterLoad(c, h) ==
    IF calls[c].cEngine = "wasm"
    THEN Delegate(c, calls[c], h, pro, FALSE)
    ELSE /\ pro' = [pro EXCEPT !.isTranscodingPro = TRUE, !.error = "none",
                               !.webcodecsUnavailableReason = "none", !.progress = 0]
         /\ calls' = [calls EXCEPT ![c].pc = "wcProbing", ![c].inTry = TRUE]
         /\ hook' = h
         /\ UNCHANGED job

\* After `await wasmTranscoder.load()` of the fallback: setEngine('wasm') and
\* the call of the captured wasmTranscoder.transcode.
FallbackContinue(c, cl, h, p) == Delegate(c, cl, h, [p EXCEPT !.engine = "wasm"], TRUE)

\* transcode after transcodeWithMediaBunny returned { result: null,
\* fallbackReason }, p being the Pro state that function left.
MediaBunnyNull(c, p, fallbackReason) ==
    LET cl == [calls[c] EXCEPT !.fallbackReason = fallbackReason]
        p1 == [p EXCEPT !.error = "none", !.progress = 0,
                        !.webcodecsUnavailableReason = fallbackReason]
    IN  IF cl.cWasmError = "none"
        THEN IF cl.cWasmIsLoaded /\ hook.ffmpegRef
             THEN FallbackContinue(c, cl, hook, p1)
             ELSE /\ calls' = [calls EXCEPT ![c] = [cl EXCEPT !.pc = "fbLoading"]]
                  /\ pro' = p1
                  /\ UNCHANGED <<hook, job>>
        ELSE /\ calls' = [calls EXCEPT ![c] = [cl EXCEPT !.pc = "settled",
                                                        !.result = "null"]]
             /\ pro' = [p EXCEPT !.isTranscodingPro = FALSE]
             /\ UNCHANGED <<hook, job>>

\* The application calls useTranscoderPro.load() of the current render (AppPro
\* does so from an effect); a load of the FFmpeg.wasm core that it starts is
\* followed to its outcome.
ProLoad ==
    /\ \A c \in Calls : calls[c].pc \in {"idle", "settled"}
    /\ \E outcome \in LoadOutcomes :
         IF pro.webCodecsAttempted
         THEN /\ pro.engine = "wasm"
              /\ ~(hook.isLoaded /\ hook.ffmpegRef)
              /\ hook' = load(hook, hook.isLoaded, outcome)
              /\ UNCHANGED pro
         ELSE IF pro.videoEncoder
         THEN /\ outcome = "loaded"
              /\ pro' = [pro EXCEPT !.webCodecsAttempted = TRUE, !.engine = "webcodecs",
                                    !.webcodecsUnavailableReason = "none"]
              /\ UNCHANGED hook
         ELSE /\ pro' = [pro EXCEPT !.webCodecsAttempted = TRUE, !.engine = "wasm",
                                    !.webcodecsUnavailableReason = "NotSupported"]
              /\ hook' = load(hook, hook.isLoaded, outcome)
    /\ UNCHANGED <<calls, job, engine, memfs, now, calcVars, appVars>>

\* useTranscoderPro.transcode(file, targetSizeMB, removeAudio, optimizeAudio,
\* ...) of the current render, up to the first await inside `await load()`.
ProTranscodeCall(c) ==
    /\ calls[c].pc = "idle"
    /\ \A b \in Calls : b < c => calls[b].pc # "idle"
    /\ \E t \in ProSizes, removeAudio \in BOOLEAN, optimizeAudio \in BOOLEAN :
         LET loadsWasm == ~(hook.isLoaded /\ hook.ffmpegRef)
             cl == [IdleCall EXCEPT !.targetSizeMB = t,
                                    !.audioKbps = audioBitrateFor(removeAudio, optimizeAudio),
                                    !.cEngine = pro.engine,
                                    !.cWasmError = hook.error,
                                    !.cWasmIsLoaded = hook.isLoaded,
                                    !.cWasmProgress = hook.cbProgress]
         IN  IF pro.webCodecsAttempted
             THEN /\ calls' = [calls EXCEPT ![c] =
                        [cl EXCEPT !.pc = IF pro.engine = "wasm" /\ loadsWasm
                                          THEN "awaitWasmLoad" ELSE "awaitLoad"]]
                  /\ UNCHANGED pro
             ELSE IF pro.videoEncoder
             THEN /\ calls' = [calls EXCEPT ![c] = [cl EXCEPT !.pc = "awaitLoad"]]
                  /\ pro' = [pro EXCEPT !.webCodecsAttempted = TRUE,
                                        !.engine = "webcodecs",
                                        !.webcodecsUnavailableReason = "none"]
             ELSE /\ calls' = [calls EXCEPT ![c] =
                        [cl EXCEPT !.pc = IF loadsWasm THEN "awaitWasmLoad"
                                          ELSE "awaitLoad"]]
                  /\ pro' = [pro EXCEPT !.webCodecsAttempted = TRUE, !.engine = "wasm",
                                        !.webcodecsUnavailableReason = "NotSupported"]
    /\ UNCHANGED <<hook, job, engine, memfs, now, calcVars, appVars>>

\* `await load()` returns without having had to load the FFmpeg.wasm core.
ProLoadReturned(c) ==
    /\ calls[c].pc = "awaitLoad"
    /\ AfterLoad(c, hook)
    /\ UNCHANGED <<engine, memfs, now, calcVars, appVars>>

\* `await load()` returns after the FFmpeg.wasm core was loaded.
ProLoadSucceeds(c) ==
    /\ calls[c].pc = "awaitWasmLoad"
    /\ AfterLoad(c, load(hook, calls[c].cWasmIsLoaded, "loaded"))
    /\ UNCHANGED <<engine, memfs, now, calcVars, appVars>>

\* `await load()` throws; it stands before the try, so transcode rejects.
ProLoadFails(c) ==
    /\ calls[c].pc = "awaitWasmLoad"
    /\ \E outcome \in LoadOutcomes \ {"loaded"} :
         hook' = load(hook, calls[c].cWasmIsLoaded, outcome)
    /\ calls' = [calls EXCEPT ![c].pc = "settled", ![c].result = "rejected"]
    /\ UNCHANGED <<pro, job, engine, memfs, now, calcVars, appVars>>

\* transcodeWithMediaBunny: computeDuration, the track queries and the import
\* return; the video bitrate is computed.  Conversion.init is awaited next.
WcProbed(c) ==
    /\ calls[c].pc = "wcProbing"
    /\ \E d \in ProDurations :
         calls' = [calls EXCEPT ![c].pc = "wcInit", ![c].duration = d,
                       ![c].videoBitrateBps =
                           calculateVideoBitrate(calls[c].targetSizeMB, d,
                                                 1000 * calls[c].audioKbps)]
    /\ UNCHANGED <<pro, hook, job, engine, memfs, now, calcVars, appVars>>

\* computeDuration or a track query throws, or the file has no video track.
WcProbeFails(c) ==
    /\ calls[c].pc = "wcProbing"
    /\ MediaBunnyNull(c, [pro EXCEPT !.error = "MediaBunnyError"], "WebCodecsError")
    /\ UNCHANGED <<engine, memfs, now, calcVars, appVars>>

\* Conversion.init returns a valid conversion: onProgress is set and
\* conversion.execute() starts the encode.
WcInitValid(c) ==
    /\ calls[c].pc = "wcInit"
    /\ calls' = [calls EXCEPT ![c].pc = "wcExecuting"]
    /\ UNCHANGED <<pro, hook, job, engine, memfs, now, calcVars, appVars>>

\* Conversion.init returns a conversion that discarded tracks (!isValid).
WcInitInvalid(c) ==
    /\ calls[c].pc = "wcInit"
    /\ MediaBunnyNull(c, pro, "DiscardedTracks")
    /\ UNCHANGED <<engine, memfs, now, calcVars, appVars>>

\* Conversion.init throws.
WcInitFails(c) ==
    /\ calls[c].pc = "wcInit"
    /\ MediaBunnyNull(c, [pro EXCEPT !.error = "MediaBunnyError"], "WebCodecsError")
    /\ UNCHANGED <<engine, memfs, now, calcVars, appVars>>

\* conversion.onProgress = (p) => setProgress(p)
WcProgress(c) ==
    /\ calls[c].pc = "wcExecuting"
    /\ \E p \in ProgressReports : pro' = [pro EXCEPT !.progress = p]
    /\ UNCHANGED <<calls, hook, job, engine, memfs, now, calcVars, appVars>>

\* conversion.execute() resolves; the buffer is empty, at least 98% of the
\* input's size, or smaller.
WcExecuted(c) ==
    /\ calls[c].pc = "wcExecuting"
    /\ \E out \in {"empty", "matchesInput", "smaller"} :
         CASE out = "empty" ->
                MediaBunnyNull(c, [pro EXCEPT !.error = "MediaBunnyError"], "WebCodecsError")
           [] out = "matchesInput" -> MediaBunnyNull(c, pro, "MatchedInput")
           [] OTHER ->
                /\ pro' = [pro EXCEPT !.progress = 100, !.isTranscodingPro = FALSE]
                /\ calls' = [calls EXCEPT ![c].pc = "settled", ![c].result = "url"]
                /\ UNCHANGED <<hook, job>>
    /\ UNCHANGED <<engine, memfs, now, calcVars, appVars>>

\* conversion.execute() rejects.
WcExecuteFails(c) ==
    /\ calls[c].pc = "wcExecuting"
    /\ MediaBunnyNull(c, [pro EXCEPT !.error = "MediaBunnyError"], "WebCodecsError")
    /\ UNCHANGED <<engine, memfs, now, calcVars, appVars>>

\* The fallback's `await wasmTranscoder.load()` returns.
FallbackLoadSucceeds(c) ==
    /\ calls[c].pc = "fbLoading"
    /\ FallbackContinue(c, calls[c], load(hook, calls[c].cWasmIsLoaded, "loaded"), pro)
    /\ UNCHANGED <<engine, memfs, now, calcVars, appVars>>

\* The fallback's `await wasmTranscoder.load()` throws: transcode rejects
\* after its finally block.
FallbackLoadFails(c) ==
    /\ calls[c].pc = "fbLoading"
    /\ \E outcome \in LoadOutcomes \ {"loaded"} :
         hook' = load(hook, calls[c].cWasmIsLoaded, outcome)
    /\ calls' = [calls EXCEPT ![c].pc = "settled", ![c].result = "rejected"]
    /\ pro' = [pro EXCEPT !.isTranscodingPro = FALSE]
    /\ UNCHANGED <<job, engine, memfs, now, calcVars, appVars>>

\* const currentError = engine === 'wasm' ? wasmTranscoder.error : error
currentError(p, h) == IF p.engine = "wasm" THEN h.error ELSE p.error

ProNext ==
    \/ ProLoad
    \/ \E c \in Calls :
         \/ ProTranscodeCall(c)
         \/ ProLoadReturned(c)
         \/ ProLoadSucceeds(c)
         \/ ProLoadFails(c)
         \/ WcProbed(c)
         \/ WcProbeFails(c)
         \/ WcInitValid(c)
         \/ WcInitInvalid(c)
         \/ WcInitFails(c)
         \/ WcProgress(c)
         \/ WcExecuted(c)
         \/ WcExecuteFails(c)
         \/ FallbackLoadSucceeds(c)
         \/ FallbackLoadFails(c)

(***************************************************************************)
(* The application components App.tsx and AppPro.tsx, as far as the output *)
(* blob URL goes.  A blob URL is a number from 1 on, 0 stands for null; a  *)
(* file is a number from 1 on, 0 for no file.  transcode is seen from the  *)
(* handler that awaits it: it resolves to a new blob URL or to null.  The  *)
(* buttons and the dropzone that call the handlers are rendered or enabled *)
(* only while isTranscoding is false; unmounting can happen at any time.   *)
(* A handleTranscode call is followed through the hook's transcode: pending *)
(* counts the calls that have not yet raised the hook's busy flag, running  *)
(* those that have.  useTranscoder.transcode raises the flag before its     *)
(* first await; useTranscoderPro.transcode awaits load() first.  AppPro     *)
(* also keeps the credits; completed counts the compressions that returned  *)
(* a blob URL.                                                              *)
(***************************************************************************)
MaxUrls == 6

CREDITS_PER_COMPRESSION == 1

DEMO_CREDITS == 5

MaxFiles == 2

AppKinds == {"App", "AppPro"}

IdleApp ==
    [kind |-> "App", mounted |-> TRUE, selectedFile |-> 0, outputBlobURL |-> 0,
     outputBlobURLRef |-> 0, isTranscoding |-> FALSE, created |-> {}, revoked |-> {},
     credits |-> DEMO_CREDITS, pending |-> 0, running |-> 0, completed |-> 0]

AppIdle == app = IdleApp

AppInit == \E k \in AppKinds : app = [IdleApp EXCEPT !.kind = k]

\* URL.revokeObjectURL(url), guarded by `if (url)`.
revokeObjectURL(a, url) ==
    IF url # 0 THEN [a EXCEPT !.revoked = a.revoked \cup {url}] ELSE a

\* setOutputBlobURL((prev) => { if (prev) URL.revokeObjectURL(prev); return null; })
\* of AppPro; setOutputBlobURL(null) of App.
clearOutputBlobURL(a) ==
    LET a1 == IF a.kind = "AppPro" THEN revokeObjectURL(a, a.outputBlobURL) ELSE a
    IN  [a1 EXCEPT !.outputBlobURL = 0]

\* The effect of AppPro with the dependency [outputBlobURL], run after the
\* render that committed state a0 -> a: the previous run's cleanup revokes
\* the URL the ref holds, then the ref takes the new URL.
outputBlobURLEffect(a0, a) ==
    IF a.kind = "AppPro" /\ a.outputBlobURL # a0.outputBlobURL
    THEN [revokeObjectURL(a, a0.outputBlobURLRef)
             EXCEPT !.outputBlobURLRef = a.outputBlobURL]
    ELSE a

\* handleFileSelect(file)
AppHandleFileSelect ==
    /\ app.mounted /\ ~app.isTranscoding
    /\ \E file \in 1..MaxFiles :
         app' = outputBlobURLEffect(app,
                    [clearOutputBlobURL(app) EXCEPT !.selectedFile = file])
    /\ UNCHANGED <<calcVars, jobVars, proVars, ui>>

\* setCredits((c) => Math.max(0, c - CREDITS_PER_COMPRESSION))
spendCredit(credits) == Max2(0, credits - CREDITS_PER_COMPRESSION)

\* handleTranscode up to the first await inside `await transcode(...)`; the
\* button that calls it is rendered while a file is selected, no output is
\* shown and the hook is not busy, and in AppPro it is disabled without
\* credits (handleTranscode makes the same test on the credits it captured).
AppHandleTranscode ==
    /\ app.mounted /\ ~app.isTranscoding
    /\ app.selectedFile # 0 /\ app.outputBlobURL = 0
    /\ app.kind = "AppPro" => app.credits >= CREDITS_PER_COMPRESSION
    /\ Cardinality(app.created) + app.pending + app.running < MaxUrls
    /\ app' = IF app.kind = "AppPro"
              THEN [outputBlobURLEffect(app, clearOutputBlobURL(app))
                      EXCEPT !.pending = app.pending + 1]
              ELSE [app EXCEPT !.running = app.running + 1, !.isTranscoding = TRUE]
    /\ UNCHANGED <<calcVars, jobVars, proVars, ui>>

\* useTranscoderPro.transcode after `await load()`: setIsTranscodingPro(true),
\* or setIsTranscoding(true) of the FFmpeg.wasm hook it hands over to.
AppTranscodeBusy ==
    /\ app.pending > 0
    /\ app' = [app EXCEPT !.pending = app.pending - 1, !.running = app.running + 1,
                          !.isTranscoding = TRUE]
    /\ UNCHANGED <<calcVars, jobVars, proVars, ui>>

\* transcode resolves to a blob URL made by URL.createObjectURL, its finally
\* block having lowered the busy flag; `if (blobURL) { setOutputBlobURL(blobURL);
\* setCredits(...) }` has no effect after unmounting.
AppTranscodeDelivers ==
    /\ app.running > 0
    /\ LET blobURL == Cardinality(app.created) + 1
           a1 == [app EXCEPT !.created = app.created \cup {blobURL},
                             !.running = app.running - 1,
                             !.completed = app.completed + 1,
                             !.isTranscoding = FALSE]
           a2 == IF app.kind = "AppPro"
                 THEN [a1 EXCEPT !.outputBlobURL = blobURL,
                                 !.credits = spendCredit(app.credits)]
                 ELSE [a1 EXCEPT !.outputBlobURL = blobURL]
       IN  app' = IF app.mounted THEN outputBlobURLEffect(a1, a2) ELSE a1
    /\ UNCHANGED <<calcVars, jobVars, proVars, ui>>

\* transcode resolves to null.
AppTranscodeFails ==
    /\ app.running > 0
    /\ app' = [app EXCEPT !.running = app.running - 1, !.isTranscoding = FALSE]
    /\ UNCHANGED <<calcVars, jobVars, proVars, ui>>

\* handleReset ('Start Over' / 'Clear')
AppHandleReset ==
    /\ app.mounted /\ ~app.isTranscoding
    /\ app.selectedFile # 0
    /\ app' = outputBlobURLEffect(app,
                  [clearOutputBlobURL(app) EXCEPT !.selectedFile = 0])
    /\ UNCHANGED <<calcVars, jobVars, proVars, ui>>

\* The component is unmounted: AppPro's effect cleanup revokes the URL its
\* ref holds; App has no cleanup.
AppUnmount ==
    /\ app.mounted
    /\ app' = [(IF app.kind = "AppPro"
                THEN revokeObjectURL(app, app.outputBlobURLRef) ELSE app)
                 EXCEPT !.mounted = FALSE]
    /\ UNCHANGED <<calcVars, jobVars, proVars, ui>>

AppNext ==
    \/ AppHandleFileSelect
    \/ AppHandleTranscode
    \/ AppTranscodeBusy
    \/ AppTranscodeDelivers
    \/ AppTranscodeFails
    \/ AppHandleReset
    \/ AppUnmount

(***************************************************************************)
(* The application components App.tsx and AppPro.tsx, as far as the        *)
(* selected file, its probe and the settings go (the two components have   *)
(* the same code here).  A file is a number from 1 on with a duration and  *)
(* a frame size of its own; 0 stands for a null duration, <<0, 0>> for a   *)
(* null or unknown resolution, <<>> for null recommendations.  Each        *)
(* handleFileSelect call in flight has a slot in ui.probes with the file   *)
(* it was given, its position and the state its closure captured.  After   *)
(* every commit the quality effect runs if one of its dependencies         *)
(* changed.  The handlers are called through the dropzone and the          *)
(* settings panel, which are enabled as App renders them; no compression   *)
(* is running and the output resolution is left at 'original'.             *)
(***************************************************************************)
MaxProbes == 2

DEFAULT_TARGET_SIZE == 80

UiSizes == {20}

videoDurationOf(file) == IF file = 1 THEN 300 ELSE 10 * file

videoFrameOf(file) == IF file = 1 THEN <<1920, 1080>> ELSE <<640, 480>>

NoFrame == <<0, 0>>

\* The sizes targetSizeMB can hold: the initial one, the panel's, and the
\* recommended size of a file.
UiTargets ==
    {DEFAULT_TARGET_SIZE} \cup UiSizes
        \cup {getRecommendedTargetSize(videoDurationOf(file)) : file \in 1..MaxFiles}

NoValidation == [null |-> TRUE]

NoEstimate == [null |-> TRUE]

\* { valid: true, recommendedSizeMB: undefined } of the catch block.
UnknownDurationValidation == [valid |-> TRUE, minSizeMB |-> 0, recommendedSizeMB |-> 0]

IdleProbe ==
    [pc |-> "idle", file |-> 0, targetSizeMB |-> 0, removeAudio |-> FALSE,
     optimizeAudio |-> FALSE, outputResolution |-> "original"]

IdleUi ==
    [isLoaded |-> FALSE, selectedFile |-> 0, targetSizeMB |-> DEFAULT_TARGET_SIZE,
     videoDuration |-> 0, videoResolution |-> NoFrame, isLoadingDuration |-> FALSE,
     sizeValidation |-> NoValidation, qualityEstimate |-> NoEstimate,
     qualityBasedRecommendations |-> <<>>, removeAudio |-> FALSE,
     optimizeAudio |-> FALSE, outputResolution |-> "original",
     probes |-> [p \in 1..MaxProbes |-> IdleProbe]]

UiIdle == ui = IdleUi

\* The dependency list of the quality effect.
qualityEffectDeps(u) ==
    <<u.removeAudio, u.optimizeAudio, u.videoDuration, u.targetSizeMB,
      u.outputResolution, u.videoResolution>>

\* useEffect(() => { if (videoDuration) setQualityEstimate(estimateQuality(...)) },
\* [...]) after the commit u0 -> u.
qualityEffect(u0, u) ==
    IF u.videoDuration # 0 /\ qualityEffectDeps(u) # qualityEffectDeps(u0)
    THEN [u EXCEPT !.qualityEstimate =
              estimateQuality(u.targetSizeMB, u.videoDuration, u.videoResolution[1],
                              u.videoResolution[2], u.removeAudio, u.optimizeAudio,
                              u.outputResolution)]
    ELSE u

\* handleFileSelect(file) up to `await getVideoDuration(file)`.
handleFileSelect(u, file) ==
    [u EXCEPT !.selectedFile = file, !.videoDuration = 0, !.videoResolution = NoFrame,
              !.sizeValidation = NoValidation, !.isLoadingDuration = u.isLoaded]

\* handleFileSelect of the probe pr after the resolution promise settled with
\* the frame size captured (<<0, 0>> if it was rejected), to the end of finally.
handleFileSelectProbed(u, pr, captured) ==
    LET duration == videoDurationOf(pr.file)
        validation == validateTargetSize(duration, pr.targetSizeMB)
        u1 == IF captured # NoFrame THEN [u EXCEPT !.videoResolution = captured] ELSE u
        u2 == [u1 EXCEPT
                 !.sizeValidation = validation,
                 !.qualityEstimate =
                     estimateQuality(pr.targetSizeMB, duration, captured[1], captured[2],
                                     pr.removeAudio, pr.optimizeAudio, pr.outputResolution),
                 !.qualityBasedRecommendations =
                     getQualityBasedRecommendations(duration, captured[1], captured[2]),
                 !.isLoadingDuration = FALSE]
    IN  IF ~validation.valid /\ validation.recommendedSizeMB # 0
        THEN [u2 EXCEPT !.targetSizeMB = validation.recommendedSizeMB]
        ELSE u2

\* handleTargetSizeChange(size)
handleTargetSizeChange(u, size) ==
    IF u.videoDuration # 0
    THEN [u EXCEPT !.targetSizeMB = size,
                   !.sizeValidation = validateTargetSize(u.videoDuration, size)]
    ELSE [u EXCEPT !.targetSizeMB = size]

\* A slip that leaves the other audio flag as it is.
handleRemoveAudioChangeOnly(u, value) == [u EXCEPT !.removeAudio = value]

\* handleRemoveAudioChange(value)
handleRemoveAudioChange(u, value) ==
    [u EXCEPT !.removeAudio = value,
              !.optimizeAudio = IF value THEN FALSE ELSE u.optimizeAudio]

\* handleOptimizeAudioChange(value)
handleOptimizeAudioChange(u, value) ==
    [u EXCEPT !.optimizeAudio = value,
              !.removeAudio = IF value THEN FALSE ELSE u.removeAudio]

\* handleReset()
handleReset(u) ==
    [u EXCEPT !.selectedFile = 0, !.targetSizeMB = DEFAULT_TARGET_SIZE,
              !.removeAudio = FALSE, !.optimizeAudio = FALSE,
              !.outputResolution = "original"]

\* <SettingsPanel disabled={isTranscoding || isLoadingDuration}>, rendered
\* while a file is selected.
SettingsPanelEnabled == ui.selectedFile # 0 /\ ~ui.isLoadingDuration

\* The load() of the mount effect succeeds.
UiLoaded ==
    /\ ~ui.isLoaded
    /\ ui' = [ui EXCEPT !.isLoaded = TRUE]
    /\ UNCHANGED <<calcVars, jobVars, proVars, app>>

\* A file is dropped on <FileDropzone disabled={!isLoaded || isTranscoding}>.
UiHandleFileSelect ==
    /\ ui.isLoaded
    /\ \E file \in 1..MaxFiles, p \in 1..MaxProbes :
         /\ ui.probes[p].pc = "idle"
         /\ \A b \in 1..MaxProbes : b < p => ui.probes[b].pc # "idle"
         /\ LET u1 == handleFileSelect(ui, file)
                pr == [pc |-> "duration", file |-> file,
                       targetSizeMB |-> ui.targetSizeMB, removeAudio |-> ui.removeAudio,
                       optimizeAudio |-> ui.optimizeAudio,
                       outputResolution |-> ui.outputResolution]
            IN  ui' = qualityEffect(ui, [u1 EXCEPT !.probes[p] = pr])
    /\ UNCHANGED <<calcVars, jobVars, proVars, app>>

\* getVideoDuration resolves: setVideoDuration(duration); the function goes
\* on to await the metadata of a video element.
UiDurationProbed ==
    /\ \E p \in 1..MaxProbes :
         /\ ui.probes[p].pc = "duration"
         /\ ui' = qualityEffect(ui,
                      [ui EXCEPT !.videoDuration = videoDurationOf(ui.probes[p].file),
                                 !.probes[p].pc = "resolution"])
    /\ UNCHANGED <<calcVars, jobVars, proVars, app>>

\* getVideoDuration rejects: the catch block and finally.
UiDurationFails ==
    /\ \E p \in 1..MaxProbes :
         /\ ui.probes[p].pc = "duration"
         /\ ui' = qualityEffect(ui,
                      [ui EXCEPT !.sizeValidation = UnknownDurationValidation,
                                 !.isLoadingDuration = FALSE,
                                 !.probes[p] = IdleProbe])
    /\ UNCHANGED <<calcVars, jobVars, proVars, app>>

\* The metadata promise resolves with the frame size or rejects (error or
\* the 5 s timeout); the rest of the try block and finally follow.
UiResolutionSettled ==
    /\ \E p \in 1..MaxProbes :
         /\ ui.probes[p].pc = "resolution"
         /\ \E captured \in {videoFrameOf(ui.probes[p].file), NoFrame} :
              ui' = qualityEffect(ui,
                        [handleFileSelectProbed(ui, ui.probes[p], captured)
                           EXCEPT !.probes[p] = IdleProbe])
    /\ UNCHANGED <<calcVars, jobVars, proVars, app>>

UiHandleTargetSizeChange ==
    /\ SettingsPanelEnabled
    /\ \E size \in UiSizes : ui' = qualityEffect(ui, handleTargetSizeChange(ui, size))
    /\ UNCHANGED <<calcVars, jobVars, proVars, app>>

UiHandleRemoveAudioChange ==
    /\ SettingsPanelEnabled
    /\ ui' = qualityEffect(ui, handleRemoveAudioChange(ui, ~ui.removeAudio))
    /\ UNCHANGED <<calcVars, jobVars, proVars, app>>

\* The checkbox is disabled while removeAudio is checked.
UiHandleOptimizeAudioChange ==
    /\ SettingsPanelEnabled /\ ~ui.removeAudio
    /\ ui' = qualityEffect(ui, handleOptimizeAudioChange(ui, ~ui.optimizeAudio))
    /\ UNCHANGED <<calcVars, jobVars, proVars, app>>

\* 'Clear' (disabled while isLoadingDuration) or 'Start Over'.
UiHandleReset ==
    /\ ui.selectedFile # 0 /\ ~ui.isLoadingDuration
    /\ ui' = qualityEffect(ui, handleReset(ui))
    /\ UNCHANGED <<calcVars, jobVars, proVars, app>>

UiNext ==
    \/ UiLoaded
    \/ UiHandleFileSelect
    \/ UiDurationProbed
    \/ UiDurationFails
    \/ UiResolutionSettled
    \/ UiHandleTargetSizeChange
    \/ UiHandleRemoveAudioChange
    \/ UiHandleOptimizeAudioChange
    \/ UiHandleReset


CalcSpecInit == CalcInit /\ JobInit /\ ProIdle /\ AppIdle /\ UiIdle

JobSpecInit == CalcIdle /\ JobInit /\ ProIdle /\ AppIdle /\ UiIdle

ProSpecInit == CalcIdle /\ JobInit /\ ProInit /\ AppIdle /\ UiIdle

AppSpecInit == CalcIdle /\ JobInit /\ ProIdle /\ AppInit /\ UiIdle

SettingsSpecInit == CalcIdle /\ JobInit /\ ProIdle /\ AppIdle /\ UiIdle

SpecCalc == CalcSpecInit /\ [][CalcNext]_vars

SpecJob == JobSpecInit /\ [][JobNext]_vars

SpecPro == ProSpecInit /\ [][ProNext]_vars

SpecApp == AppSpecInit /\ [][AppNext]_vars

SpecSettings == SettingsSpecInit /\ [][UiNext]_vars

(***************************************************************************)
(* C1: for every duration d > 0 the minimum size the validator computes is *)
(* itself accepted by the validator:                                       *)
(* validateTargetSize(d, calculateMinimumSize(d)).valid is true.           *)
(***************************************************************************)
C1_MinimumSizeIsValid ==
    calcOut.op = "validateMinimum" => calcOut.validation.valid

(***************************************************************************)
(* C2: for every score in {30, 50, 70, 90}, duration and input size, the   *)
(* quality estimated for the size resolved from the score (audio full,     *)
(* resolution 'original') differs from the score by at most 2.             *)
(***************************************************************************)
C2_RoundTripWithinTwo ==
    calcOut.op = "roundTrip" => Abs(calcOut.quality.score - calcIn.score) <= 2

(***************************************************************************)
(* C10: the computed video bitrate (of calculateBitrate and of             *)
(* calculateVideoBitrate) does not decrease when the target size grows and *)
(* does not increase when the duration grows, the other arguments fixed.   *)
(* Each point of the input grid is compared with the next larger size and  *)
(* with the next longer duration; "increasing" and "decreasing" are meant   *)
(* weakly, as both functions round down to whole units.                    *)
(***************************************************************************)
C10_BitrateMonotone ==
    calcOut.op = "bitrate" =>
        /\ calcOut.kbps <= calcOut.kbpsLarger
        /\ calcOut.kbps >= calcOut.kbpsLonger
        /\ calcOut.bps <= calcOut.bpsLarger
        /\ calcOut.bps >= calcOut.bpsLonger

\* A call where both functions really grow with the size and shrink with the
\* duration (above the 100 kbps clamp of the Pro function).
C10_Witness ==
    /\ calcOut.op = "bitrate"
    /\ calcOut.kbps < calcOut.kbpsLarger /\ calcOut.kbps > calcOut.kbpsLonger
    /\ calcOut.bps < calcOut.bpsLarger /\ calcOut.bps > calcOut.bpsLonger
    /\ calcOut.bpsLonger > MIN_PRO_BITRATE_BPS

(***************************************************************************)
(* C3: when the stall interval has found no progress for more than the     *)
(* stall threshold before any completion marker, the call settles with     *)
(* null and the error it surfaces is the stall error (its text and         *)
(* remediation), not the out-of-memory error or another one.               *)
(***************************************************************************)
C3_StallSurfacesStallError ==
    (job.pc = "settled" /\ job.encodingTimedOut)
        => (job.result = "null" /\ hook.error = "EncodingFailed: Stalled")

(***************************************************************************)
(* C4: when errorHandler has seen the completion marker and then an abort  *)
(* line, the abort is not classified as a failure, whether exec resolves   *)
(* or rejects afterwards.                                                  *)
(***************************************************************************)
C4_AbortAfterMarkerIsBenign ==
    (job.pc = "settled" /\ job.encodingCompleted /\ engine.log = <<"stats", "abort">>)
        => hook.error # "OutOfMemory"

(***************************************************************************)
(* C7: whenever a transcode call has settled, with a URL or with null, the *)
(* input and output files it put into MEMFS are gone.                      *)
(***************************************************************************)
C7_MemfsEmptyWhenSettled ==
    job.pc = "settled" => memfs \cap {INPUT_FILE, OUTPUT_FILE} = {}

(***************************************************************************)
(* C5: a useTranscoderPro.transcode call whose WebCodecs attempt returned  *)
(* null with a fallback reason hands the same request (target size, audio) *)
(* to the FFmpeg.wasm engine within that call, which encodes it, and the   *)
(* reason is exposed.  Stated for the case in which the FFmpeg.wasm core   *)
(* loads and useTranscoder held no error when the call was made.           *)
(***************************************************************************)
C5_FallbackEncodesSameRequest ==
    \A c \in Calls :
        (/\ calls[c].cEngine = "webcodecs"
         /\ calls[c].fallbackReason # "none"
         /\ calls[c].cWasmError = "none"
         /\ calls[c].pc # "fbLoading"
         /\ hook.isLoaded)
        => /\ calls[c].pc = "delegated"
           /\ job.pc # "settled"
           /\ job.targetSizeMB = calls[c].targetSizeMB
           /\ job.audioBitrateKbps = calls[c].audioKbps
           /\ pro.webcodecsUnavailableReason = calls[c].fallbackReason

(***************************************************************************)
(* C6: at most one call of a hook instance has an encode job in flight: a  *)
(* second call made before the first has settled does not start a job of   *)
(* its own.                                                                *)
(***************************************************************************)
C6_OneActiveJob ==
    Cardinality({c \in Calls :
                   calls[c].pc \in {"wcExecuting", "delegated", "overlapped"}}) <= 1

(***************************************************************************)
(* C8: no encode is started for a request whose target size or duration is *)
(* not positive (the bitrate computation rejects it first).  Stated for    *)
(* the calls made with the WebCodecs engine selected.                      *)
(***************************************************************************)
C8_NoEncodeForInvalidParameters ==
    \A c \in Calls :
        (calls[c].cEngine = "webcodecs" /\ calls[c].pc = "wcExecuting")
            => (calls[c].targetSizeMB > 0 /\ calls[c].duration > 0)

(***************************************************************************)
(* C9: no encode is started for a valid request whose computed video       *)
(* bitrate is below the 100 kbps floor (it is reported as infeasible, and  *)
(* not clamped to the floor).  Stated for the calls made with the          *)
(* WebCodecs engine selected.                                              *)
(***************************************************************************)
C9_NoEncodeBelowFloor ==
    \A c \in Calls :
        (/\ calls[c].cEngine = "webcodecs" /\ calls[c].pc = "wcExecuting"
         /\ calls[c].targetSizeMB > 0 /\ calls[c].duration > 0)
            => hardwareVideoBitrate(calls[c].targetSizeMB, calls[c].duration,
                                    1000 * calls[c].audioKbps) >= MIN_PRO_BITRATE_BPS

(***************************************************************************)
(* C11 refers to the closed formula                                        *)
(*   F = (max(0.1, T - clamp(0.02*T, 0.244140625, 2)) * 8192 * 1000 / D    *)
(*        - A) * 0.95  bits per second.                                    *)
(* With T in tenths of a MB and the audio bitrate a in kbps, F / 1000 is   *)
(* the fraction C11_FormulaNum / (2500 * D).                               *)
(***************************************************************************)
C11_FormulaNum(t, d, a) ==
    LET buffer   == Min2(128000, Max2(15625, 128 * t))
        adjusted == Max2(6400, 6400 * t - buffer)
    IN  19 * (16 * adjusted - 125 * a * d)

(***************************************************************************)
(* C11 as stated: both engines' bitrate functions return F up to rounding  *)
(* (calculateBitrate in whole kbps, calculateVideoBitrate within one bit   *)
(* per second).                                                            *)
(***************************************************************************)
C11_BothEnginesMatchFormula ==
    calcOut.op = "formula" =>
        LET num == C11_FormulaNum(calcIn.t, calcIn.d, calcIn.a)
        IN  /\ 2500 * calcIn.d * calcOut.kbps <= num
            /\ num < 2500 * calcIn.d * (calcOut.kbps + 1)
            /\ 5 * calcIn.d * (calcOut.bps - 1) <= 2 * num
            /\ 2 * num <= 5 * calcIn.d * (calcOut.bps + 1)

(***************************************************************************)
(* C11 as amended: calculateBitrate returns floor(F / 1000) kbps, and      *)
(* calculateVideoBitrate returns max(100000, floor(0.55 * F)) bits per     *)
(* second (0.55 * F = 11 * C11_FormulaNum / (50 * D)).                     *)
(***************************************************************************)
C11_BitrateFormula ==
    calcOut.op = "formula" =>
        LET num == C11_FormulaNum(calcIn.t, calcIn.d, calcIn.a)
            d   == calcIn.d
        IN  /\ 2500 * d * calcOut.kbps <= num
            /\ num < 2500 * d * (calcOut.kbps + 1)
            /\ calcOut.bps >= MIN_PRO_BITRATE_BPS
            /\ 11 * num < 50 * d * (calcOut.bps + 1)
            /\ calcOut.bps > MIN_PRO_BITRATE_BPS => 50 * d * calcOut.bps <= 11 * num

\* The worked example: 8 MB, 90 s, 128 kbps audio gives 549 kbps on the
\* FFmpeg.wasm path and 301981 bps on the WebCodecs path.
C11_Witness ==
    /\ calcOut.op = "formula"
    /\ calcIn.t = 80 /\ calcIn.d = 90 /\ calcIn.a = 128
    /\ calcOut.kbps = 549
    /\ calcOut.bps = 301981

(***************************************************************************)
(* C12: getTargetDimensions never upscales.  It returns undefined when the *)
(* cap is 'original' or the input fits inside the cap's box on both axes,  *)
(* and dimensions it returns are no larger than the input on either axis.  *)
(***************************************************************************)
C12_NeverUpscales ==
    calcOut.op = "dimensions" =>
        LET fits == /\ calcIn.cap # "original"
                    /\ calcIn.w <= RESOLUTION_PRESETS[calcIn.cap].width
                    /\ calcIn.h <= RESOLUTION_PRESETS[calcIn.cap].height
        IN  /\ (calcIn.cap = "original" \/ fits) => ~calcOut.dims.defined
            /\ calcOut.dims.defined =>
                 /\ calcOut.dims.width <= calcIn.w
                 /\ calcOut.dims.height <= calcIn.h

\* A 4K input under the 720p cap is scaled down to 1280x720.
C12_Witness ==
    /\ calcOut.op = "dimensions"
    /\ calcIn.cap = "720p" /\ calcIn.w = 3840 /\ calcIn.h = 2160
    /\ calcOut.dims = Dimensions(1280, 720)

(***************************************************************************)
(* C13: dimensions returned for a preset cap lie inside the cap's box on   *)
(* both axes, touch the box on at least one axis, and keep the input's     *)
(* aspect ratio to within one pixel: the height differs from               *)
(* width * h / w, or the width from height * w / h, by at most 1.          *)
(***************************************************************************)
C13_FitsBoxKeepsAspect ==
    (calcOut.op = "dimensions" /\ calcOut.dims.defined) =>
        LET preset == RESOLUTION_PRESETS[calcIn.cap]
            width  == calcOut.dims.width
            height == calcOut.dims.height
        IN  /\ width <= preset.width
            /\ height <= preset.height
            /\ (width = preset.width \/ height = preset.height)
            /\ \/ Abs(height * calcIn.w - width * calcIn.h) <= calcIn.w
               \/ Abs(width * calcIn.h - height * calcIn.w) <= calcIn.h

\* An input that fits the box's width but not its height: 1500x1200 under
\* 1080p takes the second fit and becomes 1350x1080.
C13_Witness ==
    /\ calcOut.op = "dimensions"
    /\ calcIn.cap = "1080p" /\ calcIn.w = 1500 /\ calcIn.h = 1200
    /\ calcOut.dims = Dimensions(1350, 1080)

(***************************************************************************)
(* C14: the list getQualityBasedRecommendations returns is strictly        *)
(* ascending (so it has no duplicates), has one to four entries, and holds *)
(* exactly the sizes resolved for the checkpoints 60, 75, 90 and 100.  The *)
(* list is a function of the arguments alone: the operation reads no state *)
(* of the hook, so a second call with the same inputs returns it again.    *)
(***************************************************************************)
C14_RecommendationsAscending ==
    calcOut.op = "recommend" =>
        LET list == calcOut.list
            sizeFor(score) ==
                calculateTargetSizeForQuality(score, calcIn.d, calcIn.size[1],
                                              calcIn.size[2])
        IN  /\ Len(list) \in 1..4
            /\ \A i \in 1..(Len(list) - 1) : list[i] < list[i + 1]
            /\ {list[i] : i \in 1..Len(list)}
                 = {sizeFor(60), sizeFor(75), sizeFor(90), sizeFor(100)}

\* A short, small clip for which two checkpoints resolve to the same size,
\* so that the list is shorter than the list of checkpoints.
C14_Witness ==
    /\ calcOut.op = "recommend"
    /\ Len(calcOut.list) \in 2..3

(***************************************************************************)
(* C15: when the output fails validation (it cannot be read, or it is      *)
(* smaller than the minimum plausible size) and the progress the hook      *)
(* reported had reached 95%, transcode fails with the truncated-output     *)
(* error ("encoding completed but ...") and not with the generic read      *)
(* failure or too-small error.                                             *)
(***************************************************************************)
C15_TruncatedOutputError ==
    (/\ job.pc = "settled"
     /\ hook.progress >= NEAR_COMPLETE
     /\ hook.error \in {"ReadFailed", "OutputTooSmall",
                        "CompletedButUnreadable", "CompletedButTooSmall"})
        => hook.error \in {"CompletedButUnreadable", "CompletedButTooSmall"}

(***************************************************************************)
(* C16: cross-engine fallback happens at most once per transcode call.     *)
(* Once a call has left the WebCodecs attempt with a fallback reason it    *)
(* never enters a WebCodecs attempt again, and once it has handed the      *)
(* request to the FFmpeg.wasm hook, or has ended, it makes no further      *)
(* engine attempt: its position no longer changes.                         *)
(***************************************************************************)
C16_FallbackAtMostOnce ==
    [][\A c \in Calls :
         /\ calls[c].fallbackReason # "none" =>
              calls'[c].pc \notin {"wcProbing", "wcInit", "wcExecuting"}
         /\ calls[c].pc \in {"delegated", "overlapped", "settled"} =>
              calls'[c].pc = calls[c].pc]_vars

\* A call whose WebCodecs attempt failed, whose one hand-over to the
\* FFmpeg.wasm hook was turned away, and which has ended.
C16_Witness ==
    \E c \in Calls :
        /\ calls[c].fallbackReason # "none"
        /\ calls[c].pc = "settled"
        /\ calls[c].result = "null"
        /\ hook.error = "FFmpegNotLoadedYet"

(***************************************************************************)
(* C17: a transcode call that does not deliver an output URL resolves to   *)
(* null (it does not reject), and at the moment it ends the error the hook *)
(* shows to its caller is not null.  Stated for useTranscoderPro, whose    *)
(* visible error is currentError; the fallback engine failing to load is   *)
(* among the cases.                                                        *)
(***************************************************************************)
C17_FailureIsNullWithError ==
    [][\A c \in Calls :
         (/\ calls[c].pc # "settled"
          /\ calls'[c].pc = "settled"
          /\ calls'[c].result # "url")
            => /\ calls'[c].result = "null"
               /\ currentError(pro', hook') # "none"]_vars

\* The pixel count of the output estimateQuality assumes for the drawn input.
C18_Pixels ==
    LET w == calcIn.size[1]
        h == calcIn.size[2]
        dimensions == getTargetDimensions(calcIn.cap, w, h)
    IN  IF w = 0 \/ h = 0 THEN DEFAULT_WIDTH * DEFAULT_HEIGHT
        ELSE IF dimensions.defined THEN dimensions.width * dimensions.height
        ELSE w * h

\* bpp >= 0.15 is 2000 * videoBitrate >= 9 * pixels, and so on down.
C18_Tier(videoBitrate, pixels) ==
    IF 2000 * videoBitrate >= 9 * pixels THEN "excellent"
    ELSE IF 1000 * videoBitrate >= 3 * pixels THEN "good"
    ELSE IF 5000 * videoBitrate >= 9 * pixels THEN "fair"
    ELSE IF 10000 * videoBitrate >= 9 * pixels THEN "poor"
    ELSE "very-poor"

C19_BlobUrlsRevoked ==
    \A url \in app.created :
        IF app.mounted /\ app.outputBlobURL = url
        THEN url \notin app.revoked
        ELSE url \in app.revoked

\* C20: a running job is never classified as stalled while progress keeps
\* arriving on either channel: whenever the periodic liveness check declares the
\* stall, the engine's most recent progress report (a progress-callback event or
\* a frame=/time= log line) is more than STALL_THRESHOLD old.
C20_NoStallWhileProgressArrives ==
    [][(~job.encodingTimedOut /\ job'.encodingTimedOut)
         => now' - engine.lastProgressAt > STALL_THRESHOLD]_vars

(***************************************************************************)
(* C24: the feasibility verdict is the same in the validator and in the    *)
(* encoder for every audio mode: validateTargetSize(d, s).valid is true    *)
(* exactly when transcode, with the selected audio mode, accepts (d, s) as *)
(* meeting the 100 kbps floor.                                             *)
(***************************************************************************)
C24_ValidatorAgreesWithEncoder ==
    calcOut.op = "feasibility" => (calcOut.validation.valid <=> calcOut.accepted)

(***************************************************************************)
(* C26: whenever getTargetDimensions returns dimensions, both width and    *)
(* height are at least 1, for every preset and every input with width and  *)
(* height at least 1.                                                      *)
(***************************************************************************)
C26_DimensionsAtLeastOne ==
    (calcOut.op = "dimensions" /\ calcOut.dims.defined)
        => calcOut.dims.width >= 1 /\ calcOut.dims.height >= 1

(***************************************************************************)
(* C30: the recommended size returned by the validator is itself feasible: *)
(* validateTargetSize(d, validateTargetSize(d, s).recommendedSizeMB).valid *)
(* is true for every duration d > 0 and every target size s > 0.           *)
(***************************************************************************)
C30_RecommendedSizeIsValid ==
    calcOut.op = "validateRecommended" => calcOut.revalidation.valid

\* A target the validator rejects, whose recommended substitute it accepts.
C30_Witness ==
    /\ calcOut.op = "validateRecommended"
    /\ ~calcOut.validation.valid
    /\ calcOut.revalidation.valid
    /\ calcOut.validation.recommendedSizeMB > calcIn.t

(***************************************************************************)
(* C25: the progress value the hook reports during one job stays within    *)
(* [0, 1] (0..100 percent) and never decreases while the engine is         *)
(* executing the job, whichever writer (progress callback, frame-count log *)
(* estimate, time-stamp log estimate) delivers the next update.            *)
(***************************************************************************)
C25_ProgressMonotone ==
    [][(job.pc = "executing" /\ job'.pc = "executing")
         => /\ hook'.progress \in 0..100
            /\ hook'.progress >= hook.progress]_vars

(***************************************************************************)
(* C22: every transcode call that has started an encode eventually settles, *)
(* also when the stall check fires before the exec promise wrapper has been *)
(* created: the call terminates when the engine's exec call returns.  The   *)
(* call is settled by the continuation of `await execWithStallDetection`,   *)
(* so it can only terminate if it is never left awaiting the wrapper of an  *)
(* exec call that has already returned.                                     *)
(***************************************************************************)
C22_CallSettlesWhenExecReturns ==
    ~(job.pc = "executing" /\ engine.state = "ended")

(***************************************************************************)
(* C27: in the Pro app credits are never negative and the number of        *)
(* compressions that completed successfully never exceeds the initial      *)
(* credit balance: each successful compression lowers credits by exactly   *)
(* 1 and a failed one leaves them unchanged, so the mounted component's    *)
(* balance is always DEMO_CREDITS minus the successful compressions.       *)
(***************************************************************************)
C27_CreditsCoverCompressions ==
    (app.kind = "AppPro" /\ app.mounted)
        => /\ app.credits >= 0
           /\ app.completed <= DEMO_CREDITS
           /\ app.credits = DEMO_CREDITS - CREDITS_PER_COMPRESSION * app.completed

(***************************************************************************)
(* C21: while a file is selected and its duration is known, the stored     *)
(* sizeValidation (when not null) is the validation of the current         *)
(* targetSizeMB, also after handleFileSelect replaced an infeasible target *)
(* by the recommended size.                                                *)
(***************************************************************************)
C21_ValidationOfCurrentTarget ==
    (ui.selectedFile # 0 /\ ui.videoDuration # 0 /\ ui.sizeValidation # NoValidation)
        => ui.sizeValidation = validateTargetSize(ui.videoDuration, ui.targetSizeMB)

(***************************************************************************)
(* C23: once no duration probe is in flight, the stored videoDuration,     *)
(* videoResolution and sizeValidation (when set) were computed from the    *)
(* currently selected file, also when a second file was selected while the *)
(* first file's probe was pending.                                         *)
(***************************************************************************)
C23_ProbeResultsOfSelectedFile ==
    (ui.selectedFile # 0 /\ \A p \in 1..MaxProbes : ui.probes[p].pc = "idle")
        => /\ ui.videoDuration # 0 => ui.videoDuration = videoDurationOf(ui.selectedFile)
           /\ ui.videoResolution # NoFrame
                => ui.videoResolution = videoFrameOf(ui.selectedFile)
           /\ (ui.sizeValidation # NoValidation /\ ui.sizeValidation.minSizeMB # 0)
                => ui.sizeValidation.minSizeMB
                      = calculateMinimumSize(videoDurationOf(ui.selectedFile))

(***************************************************************************)
(* C28: removeAudio and optimizeAudio are never both true, whatever        *)
(* sequence of handleRemoveAudioChange, handleOptimizeAudioChange and      *)
(* handleReset (and file selections) has run.                              *)
(***************************************************************************)
C28_AudioModeExclusive == ~(ui.removeAudio /\ ui.optimizeAudio)

\* handleRemoveAudioChange(true) has run while a probe that captured
\* optimizeAudio = true is still pending.
C28_Witness ==
    /\ ui.removeAudio /\ ~ui.optimizeAudio
    /\ \E p \in 1..MaxProbes : ui.probes[p].pc # "idle" /\ ui.probes[p].optimizeAudio

(***************************************************************************)
(* C29: when a new file is selected, the quality recommendations and the   *)
(* quality estimate that stay stored (if any) are ones computed from that  *)
(* file's duration and frame size: values derived from the previously      *)
(* selected file are dropped by the selection.                             *)
(***************************************************************************)
C29_QualityOfSelectedFile ==
    [][(ui'.selectedFile # 0 /\ ui'.selectedFile # ui.selectedFile)
         => LET duration == videoDurationOf(ui'.selectedFile)
                frames == {videoFrameOf(ui'.selectedFile), NoFrame}
            IN  /\ ui'.qualityBasedRecommendations # <<>>
                     => \E s \in frames :
                           ui'.qualityBasedRecommendations
                               = getQualityBasedRecommendations(duration, s[1], s[2])
                /\ ui'.qualityEstimate # NoEstimate
                     => \E s \in frames, t \in UiTargets, removeAudio, optimizeAudio \in BOOLEAN :
                           ui'.qualityEstimate
                               = estimateQuality(t, duration, s[1], s[2], removeAudio,
                                                 optimizeAudio, "original")]_vars

====
